---------------------------- MODULE Spec2Model ----------------------------
(* Model of the three-phase declaration analyser:                          *)
(*   lexSource  (src/src/services/semantic.service.ts, lines 124-245)     *)
(*   buildAst   (src/src/services/parser.service.ts)                      *)
(*   semanticCheck (src/src/services/semantic.service.ts, lines 4-120)    *)
(* driven in the order the test runner (src/test-runner.ts) and the       *)
(* useCompiler hook (src/src/App.tsx, lines 66-197) impose.               *)
(*                                                                         *)
(* A source text is a sequence of one-character strings; source[i] of the *)
(* code (0-based) is s[i + 1] here.  Offsets kept in the state (token     *)
(* start/end, processed positions, error index) are the code's 0-based    *)
(* offsets.                                                                *)
EXTENDS Integers, Sequences, FiniteSets, TLC

VARIABLES source, pc, processedPositions, tokens, error, ast, findings,
          fileName, phase, phaseResults, pending, call

vars == <<source, pc, processedPositions, tokens, error, ast, findings,
          fileName, phase, phaseResults, pending, call>>

\* The state of the hook that the services do not touch, and the record of
\* the function applications under way
hookVars == <<fileName, phase, phaseResults, pending>>

\* useState defaults of the hook, App.tsx lines 68-74, with no file read
\* under way
HookDefaults ==
  /\ fileName = <<>>
  /\ phase = "idle"
  /\ phaseResults = <<>>
  /\ pending = {}

NoCall == [fn |-> "none"]

-----------------------------------------------------------------------------
(* Bounds of the input sets *)

MaxLen == 5

MaxCode == 3

-----------------------------------------------------------------------------
(* Characters and character classes *)

NL == "\n"
BS == "\\"
DQ == "\""
SQ == "'"

WhitespaceChars == {" ", "\t", "\r", NL}

LineTerminators == {NL, "\r"}

Digits == {"0", "1", "2", "3", "4", "5", "6", "7", "8", "9"}

IdentStartChars ==
  {"a", "b", "c", "d", "e", "f", "g", "h", "i", "j", "k", "l", "m",
   "n", "o", "p", "q", "r", "s", "t", "u", "v", "w", "x", "y", "z",
   "A", "B", "C", "D", "E", "F", "G", "H", "I", "J", "K", "L", "M",
   "N", "O", "P", "Q", "R", "S", "T", "U", "V", "W", "X", "Y", "Z", "_"}

WordChars == IdentStartChars \cup Digits

OperatorClassChars ==
  {"=", ";", ",", "+", "-", "*", "/", "(", ")", "{", "}", "[", "]",
   "<", ">", "!", "&", "|"}

IsWhitespace(c) == c \in WhitespaceChars

-----------------------------------------------------------------------------
(* Grammar tables, src/src/constants/compiler.constants.ts *)

IntT     == <<"i","n","t">>
DoubleT  == <<"d","o","u","b","l","e">>
FloatT   == <<"f","l","o","a","t">>
BooleanT == <<"b","o","o","l","e","a","n">>
CharT    == <<"c","h","a","r">>
ByteT    == <<"b","y","t","e">>
ShortT   == <<"s","h","o","r","t">>
LongT    == <<"l","o","n","g">>
StringT  == <<"S","t","r","i","n","g">>

JAVA_TYPES ==
  {IntT, DoubleT, FloatT, BooleanT, CharT, ByteT, ShortT, LongT, StringT}

BooleanLexemes == { <<"t","r","u","e">>, <<"f","a","l","s","e">> }

JAVA_KEYWORDS == JAVA_TYPES \cup BooleanLexemes

\* Variant of OPERATORS that also lists / and *
OPERATORSWithSlashAndStar == { <<"=">>, <<"/">>, <<"*">> }

OPERATORS == { <<"=">> }

PUNCTUATION == { <<";">>, <<",">> }

-----------------------------------------------------------------------------
(* String primitives of the host language, on 0-based offsets *)

\* source.substring(i).startsWith(p)
StartsWithAt(s, i, p) ==
  /\ i + Len(p) <= Len(s)
  /\ SubSeq(s, i + 1, i + Len(p)) = p

\* source.indexOf(p, from): the least offset >= from at which p occurs, or -1
IndexOf(s, p, from) ==
  LET hits == {j \in from..(Len(s) - Len(p)) : StartsWithAt(s, j, p)}
  IN  IF hits = {} THEN -1
      ELSE CHOOSE j \in hits : \A k \in hits : j <= k

\* source.lastIndexOf(p, from), p one character: the greatest offset <= from
\* holding p, or -1; a negative from is clamped to 0
LastIndexOf(s, c, from) ==
  LET f    == IF from < 0 THEN 0 ELSE from
      hits == {j \in 0..f : j < Len(s) /\ s[j + 1] = c}
  IN  IF hits = {} THEN -1
      ELSE CHOOSE j \in hits : \A k \in hits : k <= j

\* source.substring(0, i).split('\n').length
LineOf(s, i) == Cardinality({j \in 0..(i - 1) : s[j + 1] = NL}) + 1

\* A column counted from 0 instead of 1
ColumnOfZeroBased(s, i) == i - LastIndexOf(s, NL, i - 1) - 1

\* i - source.lastIndexOf('\n', i - 1)
ColumnOf(s, i) == i - LastIndexOf(s, NL, i - 1)

-----------------------------------------------------------------------------
(* lexSource, first pass: whitespace and comments are marked as processed *)

RECURSIVE PreScanFrom(_, _, _)
PreScanFrom(s, i, marked) ==
  IF i >= Len(s) THEN marked
  ELSE IF IsWhitespace(s[i + 1])
    THEN PreScanFrom(s, i + 1, marked \cup {i})
  ELSE IF StartsWithAt(s, i, <<"/", "/">>)
    THEN LET newlineIdx == IndexOf(s, <<NL>>, i)
             end        == IF newlineIdx = -1 THEN Len(s) ELSE newlineIdx
         IN  PreScanFrom(s, end, marked \cup (i..(end - 1)))
  ELSE IF StartsWithAt(s, i, <<"/", "*">>)
    THEN LET endIdx == IndexOf(s, <<"*", "/">>, i + 2)
         IN  IF endIdx # -1
               THEN PreScanFrom(s, endIdx + 2, marked \cup (i..(endIdx + 1)))
               ELSE PreScanFrom(s, i + 1, marked)
  ELSE PreScanFrom(s, i + 1, marked)

PreScanMarks(s) == PreScanFrom(s, 0, {})

-----------------------------------------------------------------------------
(* TOKEN_REGEX: for each alternative, the offset just past the match that  *)
(* starts at offset p, or -1 when the alternative does not match there     *)

\* (?:[^q\\]|\\.)*q  from offset j on: a backslash pairs with the next
\* character unless that is a line terminator; the items cannot be split any
\* other way, so backtracking finds no further match
RECURSIVE QuotedEnd(_, _, _)
QuotedEnd(s, j, q) ==
  IF j >= Len(s) THEN -1
  ELSE IF s[j + 1] = q THEN j + 1
  ELSE IF s[j + 1] = BS
    THEN IF j + 1 < Len(s) /\ s[j + 2] \notin LineTerminators
           THEN QuotedEnd(s, j + 2, q)
           ELSE -1
  ELSE QuotedEnd(s, j + 1, q)

\* "(?:[^"\\]|\\.)*"   and   '(?:[^'\\]|\\.)*'
QuotedLiteralEnd(s, p, q) ==
  IF s[p + 1] = q THEN QuotedEnd(s, p + 1, q) ELSE -1

\* \d* from offset j: the offset just past the longest run of digits
RECURSIVE DigitsEnd(_, _)
DigitsEnd(s, j) ==
  IF j < Len(s) /\ s[j + 1] \in Digits THEN DigitsEnd(s, j + 1) ELSE j

\* -?\d+\.\d+[fFdD] | -?\d+\.\d+ | -?\d+[lLfFdD] | -?\d+
NumberEnd(s, p) ==
  LET m  == IF s[p + 1] = "-" THEN p + 1 ELSE p
      d1 == DigitsEnd(s, m)
      d2 == IF d1 < Len(s) /\ s[d1 + 1] = "." THEN DigitsEnd(s, d1 + 1) ELSE -1
  IN  IF d1 = m THEN -1
      ELSE IF d2 > d1 + 1 /\ d2 < Len(s)
                /\ s[d2 + 1] \in {"f", "F", "d", "D"} THEN d2 + 1
      ELSE IF d2 > d1 + 1 THEN d2
      ELSE IF d1 < Len(s)
                /\ s[d1 + 1] \in {"l", "L", "f", "F", "d", "D"} THEN d1 + 1
      ELSE d1

\* [A-Za-z0-9_]* from offset j
RECURSIVE WordEnd(_, _)
WordEnd(s, j) ==
  IF j < Len(s) /\ s[j + 1] \in WordChars THEN WordEnd(s, j + 1) ELSE j

\* [A-Za-z_][A-Za-z0-9_]*
IdentifierEnd(s, p) ==
  IF s[p + 1] \in IdentStartChars THEN WordEnd(s, p + 1) ELSE -1

\* [=;,+\-*/(){}\[\]<>!&|]
OperatorEnd(s, p) ==
  IF s[p + 1] \in OperatorClassChars THEN p + 1 ELSE -1

\* The first of the alternatives' results that is a match
FirstMatching(a, b, c, d, e) ==
  IF a # -1 THEN a
  ELSE IF b # -1 THEN b
  ELSE IF c # -1 THEN c
  ELSE IF d # -1 THEN d
  ELSE e

\* The alternatives in the order the regular expression lists them
MatchEndAt(s, p) ==
  FirstMatching(QuotedLiteralEnd(s, p, DQ), QuotedLiteralEnd(s, p, SQ),
                NumberEnd(s, p), IdentifierEnd(s, p), OperatorEnd(s, p))

NoMatch == [index |-> -1, lexeme |-> <<>>]

\* The match object for a match from offset pos to offset e
MatchObject(s, pos, e) == [index |-> pos, lexeme |-> SubSeq(s, pos + 1, e)]

\* One step of source.matchAll(TOKEN_REGEX): the leftmost match at or after
\* offset pos, as match.index and match[0]
RECURSIVE NextMatch(_, _)
RECURSIVE MatchOrAdvance(_, _, _)
MatchOrAdvance(s, pos, e) ==
  IF e # -1 THEN MatchObject(s, pos, e) ELSE NextMatch(s, pos + 1)

NextMatch(s, pos) ==
  IF pos >= Len(s) THEN NoMatch
  ELSE MatchOrAdvance(s, pos, MatchEndAt(s, pos))

-----------------------------------------------------------------------------
(* lexSource, second pass: classification of the matches *)

NoError == [kind |-> "none", index |-> -1, line |-> 0, column |-> 0,
            lexeme |-> <<>>]

\* new Error(`Invalid char literal ${lexeme} at line ${line}, column ${col}...`)
CharLiteralError(s, start, lexeme) ==
  [kind |-> "InvalidCharLiteral", index |-> start, line |-> LineOf(s, start),
   column |-> ColumnOf(s, start), lexeme |-> lexeme]

\* new Error(`Invalid character '${lexeme}' at line ${line}, column ${col}`)
InvalidCharacterError(s, start, lexeme) ==
  [kind |-> "InvalidCharacter", index |-> start, line |-> LineOf(s, start),
   column |-> ColumnOf(s, start), lexeme |-> lexeme]

\* lexeme.startsWith(q) && lexeme.endsWith(q)
Delimited(lexeme, q) ==
  /\ Len(lexeme) > 0
  /\ lexeme[1] = q
  /\ lexeme[Len(lexeme)] = q

\* lexeme.slice(1, -1)
SliceInner(lexeme) ==
  IF Len(lexeme) >= 2 THEN SubSeq(lexeme, 2, Len(lexeme) - 1) ELSE <<>>

\* content.length === 1 || (content.length === 2 && content[0] === '\\')
\* Variant of ValidCharContent accepting any two characters
ValidCharContentAnyPair(content) ==
  \/ Len(content) = 1
  \/ Len(content) = 2

ValidCharContent(content) ==
  \/ Len(content) = 1
  \/ (Len(content) = 2 /\ content[1] = BS)

\* -?\d+ at the start of e: the offset just past it, or -1
SignedDigitsEnd(e) ==
  IF DigitsEnd(e, IF Len(e) > 0 /\ e[1] = "-" THEN 1 ELSE 0)
       > (IF Len(e) > 0 /\ e[1] = "-" THEN 1 ELSE 0)
    THEN DigitsEnd(e, IF Len(e) > 0 /\ e[1] = "-" THEN 1 ELSE 0)
    ELSE -1

\* \.\d+ at offset j of e: the offset just past it, or -1
FractionEnd(e, j) ==
  IF j >= 0 /\ j < Len(e) /\ e[j + 1] = "." /\ DigitsEnd(e, j + 1) > j + 1
    THEN DigitsEnd(e, j + 1) ELSE -1

\* [sfx]?$ at offset j of l
OptionalSuffixAtEnd(l, j, sfx) ==
  \/ j = Len(l)
  \/ (j + 1 = Len(l) /\ l[j + 1] \in sfx)

\* /^-?\d+\.\d+[fFdD]?$/
MatchesDecimalLexeme(l) ==
  /\ FractionEnd(l, SignedDigitsEnd(l)) # -1
  /\ OptionalSuffixAtEnd(l, FractionEnd(l, SignedDigitsEnd(l)),
                         {"f", "F", "d", "D"})

\* /^-?\d+[lLfFdD]?$/
MatchesIntegerLexeme(l) ==
  /\ SignedDigitsEnd(l) # -1
  /\ OptionalSuffixAtEnd(l, SignedDigitsEnd(l),
                         {"l", "L", "f", "F", "d", "D"})

\* /^[A-Za-z_][A-Za-z0-9_]*$/
MatchesIdentifier(l) ==
  /\ Len(l) > 0
  /\ l[1] \in IdentStartChars
  /\ WordEnd(l, 1) = Len(l)

\* Variant of TokenTypeOf that tests the keyword table before the boolean
\* literals
TokenTypeOfKeywordFirst(lexeme) ==
  IF Delimited(lexeme, DQ) THEN "string"
  ELSE IF Delimited(lexeme, SQ)
    THEN IF ValidCharContent(SliceInner(lexeme))
           THEN "char"
           ELSE "InvalidCharLiteral"
  ELSE IF MatchesDecimalLexeme(lexeme) \/ MatchesIntegerLexeme(lexeme)
    THEN "number"
  ELSE IF lexeme \in JAVA_KEYWORDS THEN "keyword"
  ELSE IF lexeme \in BooleanLexemes THEN "boolean"
  ELSE IF lexeme \in OPERATORS THEN "operator"
  ELSE IF lexeme \in PUNCTUATION THEN "punctuation"
  ELSE IF MatchesIdentifier(lexeme) THEN "identifier"
  ELSE "InvalidCharacter"

\* The if / else-if chain of the match loop: the token type, or the kind of
\* error the branch throws
TokenTypeOf(lexeme) ==
  IF Delimited(lexeme, DQ) THEN "string"
  ELSE IF Delimited(lexeme, SQ)
    THEN IF ValidCharContent(SliceInner(lexeme))
           THEN "char"
           ELSE "InvalidCharLiteral"
  ELSE IF MatchesDecimalLexeme(lexeme) \/ MatchesIntegerLexeme(lexeme)
    THEN "number"
  ELSE IF lexeme \in BooleanLexemes THEN "boolean"
  ELSE IF lexeme \in JAVA_KEYWORDS THEN "keyword"
  ELSE IF lexeme \in OPERATORS THEN "operator"
  ELSE IF lexeme \in PUNCTUATION THEN "punctuation"
  ELSE IF MatchesIdentifier(lexeme) THEN "identifier"
  ELSE "InvalidCharacter"

\* tokens.push({ type, lexeme, start, end }) with end = start + lexeme.length
\* Variant of MakeToken with an inclusive end offset
MakeTokenInclusiveEnd(type, lexeme, start) ==
  [type |-> type, lexeme |-> lexeme, start |-> start,
   end |-> start + Len(lexeme) - 1]

MakeToken(type, lexeme, start) ==
  [type |-> type, lexeme |-> lexeme, start |-> start,
   end |-> start + Len(lexeme)]

\* What the match loop leaves: the error thrown (or NoError), the tokens
\* pushed and the processed positions
LoopOutcome(err, toks, processed) ==
  [error |-> err, tokens |-> toks, processed |-> processed]

\* for (const match of source.matchAll(TOKEN_REGEX)) { ... }, resumed at
\* offset pos with the processed positions and the tokens gathered so far
RECURSIVE MatchLoop(_, _, _, _)
RECURSIVE LoopBody(_, _, _, _)
RECURSIVE Classified(_, _, _, _, _)

\* Lines 179-229 for a match that is kept: type is what the if chain found
Classified(s, match, type, processed, toks) ==
  IF type = "InvalidCharLiteral"
    THEN LoopOutcome(CharLiteralError(s, match.index, match.lexeme),
                     toks, processed)
  ELSE IF type = "InvalidCharacter"
    THEN LoopOutcome(InvalidCharacterError(s, match.index, match.lexeme),
                     toks, processed)
  ELSE MatchLoop(s, match.index + Len(match.lexeme), processed,
                 Append(toks, MakeToken(type, match.lexeme, match.index)))

\* Lines 165-177 for one match
\* Variant of LoopBody that keeps matches starting at a processed position
LoopBodyKeepingProcessed(s, match, processed, toks) ==
  IF match = NoMatch THEN LoopOutcome(NoError, toks, processed)
  ELSE Classified(s, match, TokenTypeOf(match.lexeme),
                  processed \cup
                    (match.index..(match.index + Len(match.lexeme) - 1)),
                  toks)

LoopBody(s, match, processed, toks) ==
  IF match = NoMatch THEN LoopOutcome(NoError, toks, processed)
  ELSE IF match.index \in processed
    THEN MatchLoop(s, match.index + Len(match.lexeme), processed, toks)
  ELSE Classified(s, match, TokenTypeOf(match.lexeme),
                  processed \cup
                    (match.index..(match.index + Len(match.lexeme) - 1)),
                  toks)

MatchLoop(s, pos, processed, toks) ==
  LoopBody(s, NextMatch(s, pos), processed, toks)

\* lexSource, final pass: the first unprocessed non-whitespace offset, or -1
\* Variant of FirstUnprocessed whose scan starts at offset 1
FirstUnprocessedFromOne(s, processed) ==
  LET bad == {i \in 1..(Len(s) - 1) :
                 i \notin processed /\ ~IsWhitespace(s[i + 1])}
  IN  IF bad = {} THEN -1
      ELSE CHOOSE i \in bad : \A k \in bad : i <= k

FirstUnprocessed(s, processed) ==
  LET bad == {i \in 0..(Len(s) - 1) :
                 i \notin processed /\ ~IsWhitespace(s[i + 1])}
  IN  IF bad = {} THEN -1
      ELSE CHOOSE i \in bad : \A k \in bad : i <= k

\* Lines 233-242: the error the final pass throws at offset i, NoError when
\* i = -1
CoverageError(s, i) ==
  IF i = -1 THEN NoError ELSE InvalidCharacterError(s, i, <<s[i + 1]>>)

\* Lines 232-244 after a match loop that left outcome r
FinalOutcome(s, r) ==
  IF r.error # NoError THEN [error |-> r.error, tokens |-> <<>>]
  ELSE IF CoverageError(s, FirstUnprocessed(s, r.processed)) # NoError
    THEN [error |-> CoverageError(s, FirstUnprocessed(s, r.processed)),
          tokens |-> <<>>]
  ELSE [error |-> NoError, tokens |-> r.tokens]

\* lexSource(source) as one call: the error thrown (NoError when the call
\* returns) and the token sequence returned
lexSource(s) == FinalOutcome(s, MatchLoop(s, 0, PreScanMarks(s), <<>>))

-----------------------------------------------------------------------------
(* The lexical phase as a state machine.  pc is the position in the run:   *)
(*   start -> scanned -> matched -> lexed        (lexSource returned)      *)
(*                    \-> lexError  <-/           (lexSource threw)         *)
(* tokens and processedPositions are the locals of lexSource; the value    *)
(* lexSource returns is tokens once pc = "lexed".                          *)

SeqsUpTo(S, n) == UNION {[1..k -> S] : k \in 0..n}

LexAlphabet == {"/", "*", NL, DQ, SQ, BS, "a", "1"}

\* A one-character line or block comment followed by a short piece of code
CommentedSources ==
  {<<"/", "/", c, NL>> \o code :
     c \in LexAlphabet, code \in SeqsUpTo(LexAlphabet, MaxCode)}
  \cup
  {<<"/", "*", c, "*", "/">> \o code :
     c \in LexAlphabet, code \in SeqsUpTo(LexAlphabet, MaxCode)}

\* Lexemes of every branch of the if chain of the match loop
LexWords ==
  { <<"t", "r", "u", "e">>,
    <<"f", "a", "l", "s", "e">>,
    <<"i", "n", "t">>,
    <<"S", "t", "r", "i", "n", "g">>,
    <<"d", "o", "u", "b", "l", "e">>,
    <<"x">>,
    <<"_", "a", "1">>,
    <<"t", "r", "u", "e", "x">>,
    <<"I", "n", "t">>,
    <<"=">>,
    <<";">>,
    <<",">>,
    <<"+">>,
    <<"*">>,
    <<"(">>,
    <<"{">>,
    <<"<">>,
    <<"1">>,
    <<"-", "1">>,
    <<"1", "L">>,
    <<"1", "l">>,
    <<"1", "f">>,
    <<"1", "D">>,
    <<"1", ".", "5">>,
    <<"1", ".", "5", "f">>,
    <<"1", ".", "5", "d">>,
    <<DQ, "s", DQ>>,
    <<SQ, "a", SQ>> }

\* Short sources, commented sources, a string literal holding // followed
\* by a short piece of code, and one or two lexemes, adjacent or a blank
\* apart
LexSources ==
  SeqsUpTo(LexAlphabet, MaxLen) \cup CommentedSources
    \cup {<<DQ, "/", "/", DQ>> \o code :
            code \in SeqsUpTo(LexAlphabet, MaxCode)}
    \cup {v \o sep \o w :
            v \in LexWords, sep \in {<<>>, <<" ">>}, w \in LexWords \cup {<<>>}}

NoAst == [type |-> "none", label |-> <<>>, children |-> <<>>]

InitLex ==
  /\ source \in LexSources
  /\ pc = "start"
  /\ processedPositions = {}
  /\ tokens = <<>>
  /\ error = NoError
  /\ ast = NoAst
  /\ findings = <<>>
  /\ HookDefaults
  /\ call = NoCall

\* lines 129-161: the first pass
PreScan ==
  /\ pc = "start"
  /\ processedPositions' = PreScanMarks(source)
  /\ pc' = "scanned"
  /\ UNCHANGED <<source, tokens, error, ast, findings,
               hookVars, call>>

\* lines 164-230: the match loop, to its end or to its first throw
Tokenize ==
  /\ pc = "scanned"
  /\ LET r == MatchLoop(source, 0, processedPositions, <<>>)
     IN  /\ processedPositions' = r.processed
         /\ tokens' = r.tokens
         /\ error' = r.error
         /\ pc' = IF r.error = NoError THEN "matched" ELSE "lexError"
  /\ UNCHANGED <<source, ast, findings,
               hookVars, call>>

\* lines 233-244: the final pass and the return
FinalPass ==
  /\ pc = "matched"
  /\ error' = CoverageError(source,
                            FirstUnprocessed(source, processedPositions))
  /\ pc' = IF error' = NoError THEN "lexed" ELSE "lexError"
  /\ UNCHANGED <<source, processedPositions, tokens, ast, findings,
               hookVars, call>>

NextLex == PreScan \/ Tokenize \/ FinalPass

SpecLex == InitLex /\ [][NextLex]_vars

-----------------------------------------------------------------------------
(* buildAst, src/src/services/parser.service.ts *)

\* An AstNode { type, label?, children? }: an optional field is the empty
\* sequence when absent and a one-element sequence holding its value when
\* present
Node(type, label, children) ==
  [type |-> type, label |-> label, children |-> children]

\* source.replace(/\/\/.*$/gm, ''): from each // to the end of its line
RECURSIVE StripLineComments(_, _)
StripLineComments(s, i) ==
  IF i >= Len(s) THEN <<>>
  ELSE IF StartsWithAt(s, i, <<"/", "/">>)
    THEN LET ends == {j \in i..(Len(s) - 1) : s[j + 1] \in LineTerminators}
             e    == IF ends = {} THEN Len(s)
                     ELSE CHOOSE j \in ends : \A k \in ends : j <= k
         IN  StripLineComments(s, e)
  ELSE <<s[i + 1]>> \o StripLineComments(s, i + 1)

\* .replace(/\/\*[\s\S]*?\*\//g, ''): from each /* to the nearest */ after it
RECURSIVE StripBlockComments(_, _)
StripBlockComments(s, i) ==
  IF i >= Len(s) THEN <<>>
  ELSE IF StartsWithAt(s, i, <<"/", "*">>)
            /\ IndexOf(s, <<"*", "/">>, i + 2) # -1
    THEN StripBlockComments(s, IndexOf(s, <<"*", "/">>, i + 2) + 2)
  ELSE <<s[i + 1]>> \o StripBlockComments(s, i + 1)

\* Variant of CleanSource that strips block comments only
CleanSourceBlockCommentsOnly(s) == StripBlockComments(s, 0)

CleanSource(s) == StripBlockComments(StripLineComments(s, 0), 0)

\* cleanSource.split(/;/): the pieces between the semicolons, from offset i
\* on, cur being the piece under construction
RECURSIVE SplitFrom(_, _, _)
SplitFrom(s, i, cur) ==
  IF i >= Len(s) THEN <<cur>>
  ELSE IF s[i + 1] = ";" THEN <<cur>> \o SplitFrom(s, i + 1, <<>>)
  ELSE SplitFrom(s, i + 1, Append(cur, s[i + 1]))

SplitOnSemicolon(s) == SplitFrom(s, 0, <<>>)

\* \s* from offset j
RECURSIVE WhitespaceEnd(_, _)
WhitespaceEnd(s, j) ==
  IF j < Len(s) /\ s[j + 1] \in WhitespaceChars
    THEN WhitespaceEnd(s, j + 1) ELSE j

\* stmt.trim()
RECURSIVE TrimEnd(_)
TrimEnd(s) ==
  IF Len(s) > 0 /\ s[Len(s)] \in WhitespaceChars
    THEN TrimEnd(SubSeq(s, 1, Len(s) - 1)) ELSE s

Trim(s) == TrimEnd(SubSeq(s, WhitespaceEnd(s, 0) + 1, Len(s)))

\* .map((stmt) => stmt.trim()).filter(Boolean)
RECURSIVE TrimAndFilter(_)
TrimAndFilter(pieces) ==
  IF pieces = <<>> THEN <<>>
  ELSE LET stmt == Trim(Head(pieces))
       IN  IF stmt = <<>> THEN TrimAndFilter(Tail(pieces))
           ELSE <<stmt>> \o TrimAndFilter(Tail(pieces))

Statements(s) == TrimAndFilter(SplitOnSemicolon(CleanSource(s)))

NoStatementMatch == [matched |-> FALSE, type |-> <<>>, identifier |-> <<>>,
                     expression |-> <<>>]

\* (.+)$ after "=" at offset eq: the offsets k from which the rest of the
\* text holds no line terminator, among those the \s* before it can stop at
ExpressionStarts(stmt, eq) ==
  {k \in (eq + 1)..WhitespaceEnd(stmt, eq + 1) :
     /\ k < Len(stmt)
     /\ \A j \in (k + 1)..Len(stmt) : stmt[j] \notin LineTerminators}

\* The groups, given the offsets t, w1, id, w2 at which the type word, the
\* whitespace after it, the identifier word and the whitespace after that
\* end.  \s* is greedy: the expression starts at the last offset it can
MatchGroups(stmt, t, w1, id, w2) ==
  IF /\ t > 0
     /\ w1 > t
     /\ id > w1
     /\ w2 < Len(stmt)
     /\ stmt[w2 + 1] = "="
     /\ ExpressionStarts(stmt, w2) # {}
    THEN [matched |-> TRUE,
          type |-> SubSeq(stmt, 1, t),
          identifier |-> SubSeq(stmt, w1 + 1, id),
          expression |->
            SubSeq(stmt,
                   (CHOOSE k \in ExpressionStarts(stmt, w2) :
                      \A m \in ExpressionStarts(stmt, w2) : m <= k) + 1,
                   Len(stmt))]
    ELSE NoStatementMatch

\* stmt.match(/^(\w+)\s+(\w+)\s*=\s*(.+)$/): the three groups.  The word and
\* whitespace runs are maximal (giving a character back never helps what
\* follows); (.+) must reach the end of the text without crossing a line
\* terminator
MatchStatement(stmt) ==
  MatchGroups(stmt,
    WordEnd(stmt, 0),
    WhitespaceEnd(stmt, WordEnd(stmt, 0)),
    WordEnd(stmt, WhitespaceEnd(stmt, WordEnd(stmt, 0))),
    WhitespaceEnd(stmt, WordEnd(stmt, WhitespaceEnd(stmt, WordEnd(stmt, 0)))))

SyntaxError(kind, text) ==
  [kind |-> kind, index |-> -1, line |-> 0, column |-> 0, lexeme |-> text]

\* The checks of lines 23-42 on the result of the match, in the order of
\* the code: the error thrown, or NoError
\* Variant of ValidateMatch judging the identifier before the type
ValidateMatchIdentifierFirst(stmt, match) ==
  IF ~match.matched THEN SyntaxError("InvalidStatement", stmt)
  ELSE IF match.identifier[1] \in Digits
    THEN SyntaxError("StartsWithNumber", match.identifier)
  ELSE IF match.type \notin JAVA_TYPES
    THEN SyntaxError("InvalidType", match.type)
  ELSE IF ~MatchesIdentifier(match.identifier)
    THEN SyntaxError("InvalidCharacters", match.identifier)
  ELSE NoError

\* Variant of ValidateMatch that accepts any type word
ValidateMatchAnyType(stmt, match) ==
  IF ~match.matched THEN SyntaxError("InvalidStatement", stmt)
  ELSE IF match.identifier[1] \in Digits
    THEN SyntaxError("StartsWithNumber", match.identifier)
  ELSE IF ~MatchesIdentifier(match.identifier)
    THEN SyntaxError("InvalidCharacters", match.identifier)
  ELSE NoError

ValidateMatch(stmt, match) ==
  IF ~match.matched THEN SyntaxError("InvalidStatement", stmt)
  ELSE IF match.type \notin JAVA_TYPES
    THEN SyntaxError("InvalidType", match.type)
  ELSE IF match.identifier[1] \in Digits
    THEN SyntaxError("StartsWithNumber", match.identifier)
  ELSE IF ~MatchesIdentifier(match.identifier)
    THEN SyntaxError("InvalidCharacters", match.identifier)
  ELSE NoError

StatementError(stmt) == ValidateMatch(stmt, MatchStatement(stmt))

\* children.push({ type: 'VariableDeclaration', ... })
\* Variant of DeclarationNode with the Identifier child first
DeclarationNodeIdentifierFirst(match) ==
  Node("VariableDeclaration",
       << match.type \o <<" ">> \o match.identifier >>,
       << << Node("Identifier", <<match.identifier>>, <<>>),
             Node("Type", <<match.type>>, <<>>),
             Node("Expression", <<Trim(match.expression)>>, <<>>) >> >>)

DeclarationNode(match) ==
  Node("VariableDeclaration",
       << match.type \o <<" ">> \o match.identifier >>,
       << << Node("Type", <<match.type>>, <<>>),
             Node("Identifier", <<match.identifier>>, <<>>),
             Node("Expression", <<Trim(match.expression)>>, <<>>) >> >>)

EmptyNode ==
  Node("Empty",
       << <<"N","o"," ","s","t","a","t","e","m","e","n","t","s">> >>, <<>>)

\* for (let idx = 0; idx < statements.length; idx++) { ... }; err is the
\* error of the statement at idx
RECURSIVE BuildLoop(_, _, _)
RECURSIVE BuildRest(_, _, _, _)
BuildRest(statements, idx, children, err) ==
  IF err # NoError THEN [error |-> err, children |-> children]
  ELSE BuildLoop(statements, idx + 1,
                 Append(children,
                        DeclarationNode(MatchStatement(statements[idx]))))

BuildLoop(statements, idx, children) ==
  IF idx > Len(statements) THEN [error |-> NoError, children |-> children]
  ELSE BuildRest(statements, idx, children, StatementError(statements[idx]))

\* Lines 55-58, or the throw
ProgramOrError(r) ==
  IF r.error # NoError THEN [error |-> r.error, ast |-> NoAst]
  ELSE [error |-> NoError,
        ast |-> Node("Program", <<>>,
                     << IF Len(r.children) > 0 THEN r.children
                        ELSE <<EmptyNode>> >>)]

\* buildAst(source): the error thrown, or NoError and the Program node
buildAst(s) == ProgramOrError(BuildLoop(Statements(s), 1, <<>>))

-----------------------------------------------------------------------------
(* inferJavaType and isTypeCompatible, semantic.service.ts lines 69-120 *)

\* The value null of inferJavaType
NoType == <<>>

DigitValue(c) ==
  CHOOSE n \in 0..9 :
    <<"0", "1", "2", "3", "4", "5", "6", "7", "8", "9">>[n + 1] = c

RECURSIVE StripLeadingZeros(_)
StripLeadingZeros(d) ==
  IF Len(d) > 1 /\ d[1] = "0" THEN StripLeadingZeros(Tail(d)) ELSE d

\* The value of a string of at most nine digits
RECURSIVE NatValue(_)
NatValue(d) ==
  IF d = <<>> THEN 0
  ELSE 10 * NatValue(SubSeq(d, 1, Len(d) - 1)) + DigitValue(d[Len(d)])

\* Variant of MagnitudeWithin with the same limit for both signs
MagnitudeWithinEitherSign(negative, d, limitHigh, limitLow) ==
  /\ Len(d) <= 10
  /\ \/ (IF Len(d) > 5 THEN NatValue(SubSeq(d, 1, Len(d) - 5)) ELSE 0)
          < limitHigh
     \/ /\ (IF Len(d) > 5 THEN NatValue(SubSeq(d, 1, Len(d) - 5)) ELSE 0)
             = limitHigh
        /\ (IF Len(d) > 5 THEN NatValue(SubSeq(d, Len(d) - 4, Len(d)))
            ELSE NatValue(d))
             <= limitLow

\* num >= -limit - 1 && num <= limit  for a number of magnitude d (a digit
\* string without leading zeros), limit being 127, 32767 or 2147483647.  The
\* magnitude is compared in two halves of at most five digits so that no
\* intermediate value leaves the range of the integers at hand; parseInt is
\* exact on these lengths and longer digit strings exceed every limit
MagnitudeWithin(negative, d, limitHigh, limitLow) ==
  /\ Len(d) <= 10
  /\ \/ (IF Len(d) > 5 THEN NatValue(SubSeq(d, 1, Len(d) - 5)) ELSE 0)
          < limitHigh
     \/ /\ (IF Len(d) > 5 THEN NatValue(SubSeq(d, 1, Len(d) - 5)) ELSE 0)
             = limitHigh
        /\ (IF Len(d) > 5 THEN NatValue(SubSeq(d, Len(d) - 4, Len(d)))
            ELSE NatValue(d))
             <= (IF negative THEN limitLow + 1 ELSE limitLow)

\* The range tests on num = parseInt(expression, 10), lines 93-96
NarrowestType(negative, d) ==
  IF MagnitudeWithin(negative, d, 0, 127) THEN ByteT
  ELSE IF MagnitudeWithin(negative, d, 0, 32767) THEN ShortT
  ELSE IF MagnitudeWithin(negative, d, 21474, 83647) THEN IntT
  ELSE LongT

\* The branch for /^-?\d+$/
IntegerLiteralType(expression) ==
  NarrowestType(expression[1] = "-",
                StripLeadingZeros(IF expression[1] = "-"
                                    THEN Tail(expression) ELSE expression))

\* /^"(?:[^"\\]|\\.)*"$/
MatchesStringLiteral(e) ==
  Len(e) > 0 /\ QuotedLiteralEnd(e, 0, DQ) = Len(e)

\* /^'(?:[^'\\]|\\.)'$/
MatchesCharLiteral(e) ==
  \/ /\ Len(e) = 3
     /\ e[1] = SQ /\ e[3] = SQ
     /\ e[2] \notin {SQ, BS}
  \/ /\ Len(e) = 4
     /\ e[1] = SQ /\ e[4] = SQ
     /\ e[2] = BS
     /\ e[3] \notin LineTerminators

\* /^-?\d+(?:\.\d+)?[fF]$/
MatchesFloatLiteral(e) ==
  /\ SignedDigitsEnd(e) # -1
  /\ \/ /\ SignedDigitsEnd(e) + 1 = Len(e)
        /\ e[Len(e)] \in {"f", "F"}
     \/ /\ FractionEnd(e, SignedDigitsEnd(e)) # -1
        /\ FractionEnd(e, SignedDigitsEnd(e)) + 1 = Len(e)
        /\ e[Len(e)] \in {"f", "F"}

\* /^-?\d+\.\d+[dD]?$/
MatchesDoubleLiteral(e) ==
  /\ FractionEnd(e, SignedDigitsEnd(e)) # -1
  /\ OptionalSuffixAtEnd(e, FractionEnd(e, SignedDigitsEnd(e)), {"d", "D"})

\* /^-?\d+[lL]$/
MatchesLongLiteral(e) ==
  /\ SignedDigitsEnd(e) # -1
  /\ SignedDigitsEnd(e) + 1 = Len(e)
  /\ e[Len(e)] \in {"l", "L"}

\* /^-?\d+$/
MatchesBareInteger(e) ==
  SignedDigitsEnd(e) # -1 /\ SignedDigitsEnd(e) = Len(e)

\* The tests of inferJavaType on the trimmed expression, first match wins
InferTrimmed(expression) ==
  IF expression \in BooleanLexemes THEN BooleanT
  ELSE IF MatchesStringLiteral(expression) THEN StringT
  ELSE IF MatchesCharLiteral(expression) THEN CharT
  ELSE IF MatchesFloatLiteral(expression) THEN FloatT
  ELSE IF MatchesDoubleLiteral(expression) THEN DoubleT
  ELSE IF MatchesLongLiteral(expression) THEN LongT
  ELSE IF MatchesBareInteger(expression) THEN IntegerLiteralType(expression)
  ELSE NoType

\* Variant of inferJavaType without expression.trim()
inferJavaTypeUntrimmed(expr) == InferTrimmed(expr)

inferJavaType(expr) == InferTrimmed(Trim(expr))

numericHierarchy == <<ByteT, ShortT, IntT, LongT, FloatT, DoubleT>>

\* numericHierarchy.indexOf(t), 0-based, -1 when absent
HierarchyIndexOf(t) ==
  IF \E i \in 1..Len(numericHierarchy) : numericHierarchy[i] = t
    THEN (CHOOSE i \in 1..Len(numericHierarchy) : numericHierarchy[i] = t) - 1
    ELSE -1

\* Variant of isTypeCompatible with the comparison of the indices reversed
isTypeCompatibleNarrowing(declared, value) ==
  LET declaredIdx == HierarchyIndexOf(declared)
      valueIdx    == HierarchyIndexOf(value)
  IN  IF declared = value THEN TRUE
      ELSE IF declaredIdx # -1 /\ valueIdx # -1 THEN declaredIdx <= valueIdx
      ELSE IF value = CharT
        THEN declared \in {IntT, LongT, FloatT, DoubleT}
      ELSE FALSE

isTypeCompatible(declared, value) ==
  LET declaredIdx == HierarchyIndexOf(declared)
      valueIdx    == HierarchyIndexOf(value)
  IN  IF declared = value THEN TRUE
      ELSE IF declaredIdx # -1 /\ valueIdx # -1 THEN declaredIdx >= valueIdx
      ELSE IF value = CharT
        THEN declared \in {IntT, LongT, FloatT, DoubleT}
      ELSE FALSE

-----------------------------------------------------------------------------
(* semanticCheck, semantic.service.ts lines 4-67 *)

\* x.children?.f(...): optional chaining reads an absent child list as
\* undefined instead of throwing a TypeError
OptionalChildren(node) ==
  IF node.children = <<>>
    THEN [raised |-> FALSE, defined |-> FALSE, list |-> <<>>]
    ELSE [raised |-> FALSE, defined |-> TRUE, list |-> node.children[1]]

\* Variant of FindLabel that reads the child at the place buildAst gives the
\* tag
FindLabelByPosition(node, tag) ==
  LET kids == OptionalChildren(node).list
      at   == IF tag = "Type" THEN 1 ELSE IF tag = "Identifier" THEN 2 ELSE 3
  IN  IF at > Len(kids) THEN <<>> ELSE kids[at].label

\* node.children?.find((child) => child.type === tag)?.label : the label of
\* the first child with that tag, as an optional value
FindLabel(node, tag) ==
  LET kids == OptionalChildren(node).list
      hits == {i \in 1..Len(kids) : kids[i].type = tag}
  IN  IF hits = {} THEN <<>>
      ELSE kids[CHOOSE i \in hits : \A k \in hits : i <= k].label

\* !x for an optional string: undefined or the empty string
Falsy(optional) == optional = <<>> \/ optional[1] = <<>>

Finding(level, kind, name, declared, value) ==
  [level |-> level, kind |-> kind, name |-> name, declared |-> declared,
   value |-> value]

\* `'${declaredType}' is not a valid Java type`
NotValidTypeFinding(declaredType) ==
  Finding("error", "NotValidType", <<>>, declaredType, <<>>)

\* `Variable '${varName}' is already declared`
AlreadyDeclaredFinding(varName) ==
  Finding("error", "AlreadyDeclared", varName, <<>>, <<>>)

\* `Variable '${varName}' declared as ${declaredType}`
DeclaredFinding(varName, declaredType) ==
  Finding("info", "Declared", varName, declaredType, <<>>)

\* `Type mismatch: cannot assign ${valueType} to ${declaredType}`
TypeMismatchFinding(valueType, declaredType) ==
  Finding("error", "TypeMismatch", <<>>, declaredType, valueType)

\* 'No semantic errors found'
NoErrorsFinding == Finding("info", "NoSemanticErrors", <<>>, <<>>, <<>>)

\* scope.has(varName), scope a set of <<name, type>> pairs
ScopeHas(scope, varName) == \E e \in scope : e[1] = varName

\* What one call of the forEach callback leaves: whether it threw, the
\* findings it pushed and the scope
NodeOutcome(raised, pushed, scope) ==
  [raised |-> raised, pushed |-> pushed, scope |-> scope]

\* Variant of RegisterAndCheck comparing even when no type was inferred
RegisterAndCheckUninferred(varName, declaredType, valueType, scope) ==
  NodeOutcome(FALSE,
              <<DeclaredFinding(varName, declaredType)>> \o
                (IF ~isTypeCompatible(declaredType, valueType)
                   THEN <<TypeMismatchFinding(valueType, declaredType)>>
                   ELSE <<>>),
              scope \cup {<<varName, declaredType>>})

\* Lines 38-55: the identifier is registered and announced, then the
\* expression's type, when one was inferred, is compared with the declared one
RegisterAndCheck(varName, declaredType, valueType, scope) ==
  NodeOutcome(FALSE,
              <<DeclaredFinding(varName, declaredType)>> \o
                (IF valueType # NoType
                      /\ ~isTypeCompatible(declaredType, valueType)
                   THEN <<TypeMismatchFinding(valueType, declaredType)>>
                   ELSE <<>>),
              scope \cup {<<varName, declaredType>>})

\* Variant of CheckDeclaration without the duplicate test
CheckDeclarationNoDuplicateTest(declaredType, varName, expression, scope) ==
  IF Falsy(declaredType) \/ Falsy(varName)
    THEN NodeOutcome(FALSE, <<>>, scope)
  ELSE IF declaredType[1] \notin JAVA_TYPES
    THEN NodeOutcome(FALSE, <<NotValidTypeFinding(declaredType[1])>>, scope)
  ELSE RegisterAndCheck(varName[1], declaredType[1],
                        IF Falsy(expression) THEN NoType
                        ELSE inferJavaType(expression[1]),
                        scope)

\* Variant of CheckDeclaration that registers the identifier before the
\* declared type is tested
CheckDeclarationRegisteringFirst(declaredType, varName, expression, scope) ==
  IF Falsy(declaredType) \/ Falsy(varName)
    THEN NodeOutcome(FALSE, <<>>, scope)
  ELSE IF declaredType[1] \notin JAVA_TYPES
    THEN NodeOutcome(FALSE, <<NotValidTypeFinding(declaredType[1])>>,
                     scope \cup {<<varName[1], declaredType[1]>>})
  ELSE IF ScopeHas(scope, varName[1])
    THEN NodeOutcome(FALSE, <<AlreadyDeclaredFinding(varName[1])>>, scope)
  ELSE RegisterAndCheck(varName[1], declaredType[1],
                        IF Falsy(expression) THEN NoType
                        ELSE inferJavaType(expression[1]),
                        scope)

\* Lines 18-55 for the resolved optional labels
CheckDeclaration(declaredType, varName, expression, scope) ==
  IF Falsy(declaredType) \/ Falsy(varName)
    THEN NodeOutcome(FALSE, <<>>, scope)
  ELSE IF declaredType[1] \notin JAVA_TYPES
    THEN NodeOutcome(FALSE, <<NotValidTypeFinding(declaredType[1])>>, scope)
  ELSE IF ScopeHas(scope, varName[1])
    THEN NodeOutcome(FALSE, <<AlreadyDeclaredFinding(varName[1])>>, scope)
  ELSE RegisterAndCheck(varName[1], declaredType[1],
                        IF Falsy(expression) THEN NoType
                        ELSE inferJavaType(expression[1]),
                        scope)

\* The callback of forEach for one node, lines 9-56
CheckNode(node, scope) ==
  IF node.type # "VariableDeclaration" THEN NodeOutcome(FALSE, <<>>, scope)
  ELSE IF OptionalChildren(node).raised THEN NodeOutcome(TRUE, <<>>, scope)
  ELSE CheckDeclaration(FindLabel(node, "Type"),
                        FindLabel(node, "Identifier"),
                        FindLabel(node, "Expression"), scope)

\* ast.children?.forEach((node) => { ... }) from the idx-th child on; r is
\* the outcome of the callback on that child
RECURSIVE CheckLoop(_, _, _, _)
RECURSIVE CheckRest(_, _, _, _)
\* Variant of CheckRest that puts the newest findings first
CheckRestNewestFirst(nodes, idx, found, r) ==
  IF r.raised
    THEN [raised |-> TRUE, findings |-> found, scope |-> r.scope]
    ELSE CheckLoop(nodes, idx + 1, r.pushed \o found, r.scope)

CheckRest(nodes, idx, found, r) ==
  IF r.raised
    THEN [raised |-> TRUE, findings |-> found, scope |-> r.scope]
    ELSE CheckLoop(nodes, idx + 1, found \o r.pushed, r.scope)

CheckLoop(nodes, idx, found, scope) ==
  IF idx > Len(nodes)
    THEN [raised |-> FALSE, findings |-> found, scope |-> scope]
    ELSE CheckRest(nodes, idx, found, CheckNode(nodes[idx], scope))

\* Variant of FinishCheck that synthesizes no finding
FinishCheckNoSynthesis(r) ==
  IF r.raised THEN [raised |-> TRUE, findings |-> <<>>, scope |-> {}]
  ELSE [raised |-> FALSE, findings |-> r.findings, scope |-> r.scope]

\* Lines 59-66: the synthesized finding and the return
FinishCheck(r) ==
  IF r.raised THEN [raised |-> TRUE, findings |-> <<>>, scope |-> {}]
  ELSE [raised |-> FALSE,
        findings |-> IF Len(r.findings) = 0 THEN <<NoErrorsFinding>>
                     ELSE r.findings,
        scope |-> r.scope]

\* Variant of semanticCheck whose findings array outlives the call: it
\* starts from the findings of the call before
semanticCheckKeepingFindings(tree) ==
  IF OptionalChildren(tree).raised
    THEN [raised |-> TRUE, findings |-> <<>>, scope |-> {}]
    ELSE FinishCheck(CheckLoop(OptionalChildren(tree).list, 1, findings, {}))

\* semanticCheck(ast): whether the call threw, the findings it returns and
\* the scope at its end
semanticCheck(tree) ==
  IF OptionalChildren(tree).raised
    THEN [raised |-> TRUE, findings |-> <<>>, scope |-> {}]
    ELSE FinishCheck(CheckLoop(OptionalChildren(tree).list, 1, <<>>, {}))

-----------------------------------------------------------------------------
(* The driver, src/test-runner.ts lines 35-73: the syntax phase runs on a  *)
(* source only after its lexical phase passed, the semantic phase only on  *)
(* the tree the syntax phase returned.                                     *)
(*   ... lexed -> parsed -> checked                                        *)
(*             \-> syntaxError                                             *)

MaxUnits == 2

\* Declarations, well-formed and malformed, comments, and a text the lexer
\* rejects
UnitBodies ==
  { <<"i", "n", "t", " ", "x", "=", "1">>,
    <<"b", "y", "t", "e", " ", "y", " ", "=", " ", "3", "0", "0">>,
    <<"f", "o", "o", " ", "x", "=", "1">>,
    <<"i", "n", "t", " ", "9", "a", "=", "1">>,
    <<"f", "o", "o", " ", "9", "a", "=", "1">>,
    <<"i", "n", "t", " ", "x">>,
    <<>>,
    <<"/", "*", "c", "*", "/">>,
    <<"/", "*", "/", "/", "*", "/">>,
    <<"/", "/", "c">>,
    <<"l", "o", "n", "g", " ", "z", "=", "x", " ", "y">>,
    <<"i", "n", "t", " ", "x", "=", "#">>,
    <<"i", "n", "t", " ", "a", "-", "b", "=", "1">>,
    <<"i", "n", "t", " ", "a", "$", " ", "=", "1">>,
    <<"S", "t", "r", "i", "n", "g", " ", "s", "=", DQ, "a", "/", "/", "b", DQ>>,
    <<"S", "t", "r", "i", "n", "g", " ", "t", "=",
      DQ, "a", "/", "*", "b", "*", "/", "c", DQ>> }

UnitTerminators == { <<";">>, <<>>, <<" ">>, <<NL>> }

Units == {b \o e : b \in UnitBodies, e \in UnitTerminators}

RECURSIVE Concat(_)
Concat(parts) ==
  IF parts = <<>> THEN <<>> ELSE Head(parts) \o Concat(Tail(parts))

DeclSources == {Concat(u) : u \in SeqsUpTo(Units, MaxUnits)}

Init ==
  /\ source \in DeclSources
  /\ pc = "start"
  /\ processedPositions = {}
  /\ tokens = <<>>
  /\ error = NoError
  /\ ast = NoAst
  /\ findings = <<>>
  /\ HookDefaults
  /\ call = NoCall

\* ast = buildAst(source), or the catch branch
Syntax(from) ==
  /\ pc = from
  /\ LET r == buildAst(source)
     IN  /\ ast' = r.ast
         /\ error' = r.error
         /\ pc' = IF r.error = NoError THEN "parsed" ELSE "syntaxError"
  /\ UNCHANGED <<source, processedPositions, tokens, findings,
               hookVars, call>>

\* test-runner.ts lines 45-55
RunSyntax == Syntax("lexed")

\* test-runner.ts lines 58-73
RunSemantic ==
  /\ pc = "parsed"
  /\ LET r == semanticCheck(ast)
     IN  /\ findings' = r.findings
         /\ pc' = IF r.raised THEN "semanticRaised" ELSE "checked"
  /\ UNCHANGED <<source, processedPositions, tokens, error, ast,
               hookVars, call>>

Next == PreScan \/ Tokenize \/ FinalPass \/ RunSyntax \/ RunSemantic

Spec == Init /\ [][Next]_vars

-----------------------------------------------------------------------------
(* buildAst applied to a source directly: the function does not require    *)
(* the lexical phase to have run                                           *)

ParseSource == Syntax("start")

NextParse == ParseSource

SpecParse == Init /\ [][NextParse]_vars

-----------------------------------------------------------------------------
(* semanticCheck applied to any AstNode: trees buildAst never builds are   *)
(* inputs too (children or labels missing, unknown tags, children in any   *)
(* order)                                                                   *)

MaxNodes == 2

TypeChildInputs ==
  { <<>>,
    <<Node("Type", <<>>, <<>>)>>,
    <<Node("Type", << <<>> >>, <<>>)>>,
    <<Node("Type", <<ByteT>>, <<>>)>>,
    <<Node("Type", << <<"f", "o", "o">> >>, <<>>)>> }

IdentifierChildInputs ==
  { <<>>,
    <<Node("Identifier", << <<"x">> >>, <<>>)>>,
    <<Node("Identifier", << <<"y">> >>, <<>>)>> }

ExpressionChildInputs ==
  { <<>>,
    <<Node("Expression", << <<"3", "0", "0">> >>, <<>>)>>,
    <<Node("Expression", << <<"1">> >>, <<>>)>> }

\* Declarations with their children in the order buildAst uses, and complete
\* byte declarations with the children reversed
DeclarationInputs ==
  {Node("VariableDeclaration", <<>>, << ty \o id \o ex >>) :
     ty \in TypeChildInputs, id \in IdentifierChildInputs,
     ex \in ExpressionChildInputs}
  \cup
  {Node("VariableDeclaration", <<>>,
        << ex \o id \o <<Node("Type", <<ByteT>>, <<>>)>> >>) :
     id \in IdentifierChildInputs \ {<<>>},
     ex \in ExpressionChildInputs \ {<<>>}}

NodeInputs ==
  DeclarationInputs
  \cup {Node("VariableDeclaration", <<>>, <<>>), EmptyNode,
        Node("Statement", <<>>, <<>>)}

AstInputs ==
  {Node("Program", <<>>, <<>>)}
  \cup {Node("Program", <<>>, <<kids>>) : kids \in SeqsUpTo(NodeInputs, MaxNodes)}

InitCheck ==
  /\ source = <<>>
  /\ pc = "parsed"
  /\ processedPositions = {}
  /\ tokens = <<>>
  /\ error = NoError
  /\ ast \in AstInputs
  /\ findings = <<>>
  /\ HookDefaults
  /\ call = NoCall

NextCheck == RunSemantic

SpecCheck == InitCheck /\ [][NextCheck]_vars

-----------------------------------------------------------------------------
(* semanticCheck applied to trees of the shape buildAst returns: one       *)
(* declaration with any recognised type and a literal of every kind, or a  *)
(* few short declarations                                                   *)

MaxDecls == 3

\* Expression texts: literals of every kind, integers around the limits of
\* byte, short and int, and texts that are no literal
LiteralInputs ==
  { <<"t", "r", "u", "e">>,
    <<"f", "a", "l", "s", "e">>,
    <<DQ, "s", DQ>>,
    <<SQ, "a", SQ>>,
    <<SQ, BS, "n", SQ>>,
    <<SQ, "a", "b", SQ>>,
    <<"1", ".", "5", "f">>,
    <<"1", "f">>,
    <<"1", ".", "5">>,
    <<"1", ".", "5", "d">>,
    <<"1", "L">>,
    <<"3", ".", "1", "4">>,
    <<"z">>,
    <<"x", " ", "+", " ", "1">>,
    <<"0">>,
    <<"-", "0">>,
    <<"5">>,
    <<"1", "0">>,
    <<"0", "0", "7">>,
    <<"1", "2", "7">>,
    <<"1", "2", "8">>,
    <<"-", "1", "2", "8">>,
    <<"-", "1", "2", "9">>,
    <<"3", "0", "0">>,
    <<"3", "2", "7", "6", "7">>,
    <<"3", "2", "7", "6", "8">>,
    <<"-", "3", "2", "7", "6", "8">>,
    <<"-", "3", "2", "7", "6", "9">>,
    <<"2", "1", "4", "7", "4", "8", "3", "6", "4", "7">>,
    <<"2", "1", "4", "7", "4", "8", "3", "6", "4", "8">>,
    <<"-", "2", "1", "4", "7", "4", "8", "3", "6", "4", "8">>,
    <<"-", "2", "1", "4", "7", "4", "8", "3", "6", "4", "9">>,
    <<"9", "9", "9", "9", "9", "9", "9", "9", "9", "9", "9">> }

SingleDeclarations ==
  {DeclarationNode([type |-> ty, identifier |-> <<"x">>, expression |-> ex]) :
     ty \in JAVA_TYPES, ex \in LiteralInputs}

ShortDeclarations ==
  {DeclarationNode([type |-> ty, identifier |-> id, expression |-> ex]) :
     ty \in {IntT, ByteT, <<"f", "o", "o">>},
     id \in {<<"x">>, <<"y">>},
     ex \in {<<"1">>, <<"3", "0", "0">>, <<"z">>}}

DeclarationTrees ==
  {Node("Program", <<>>, << <<d>> >>) : d \in SingleDeclarations \cup {EmptyNode}}
  \cup {Node("Program", <<>>, <<kids>>) :
          kids \in SeqsUpTo(ShortDeclarations, MaxDecls) \ {<<>>}}

InitDecl ==
  /\ source = <<>>
  /\ pc = "parsed"
  /\ processedPositions = {}
  /\ tokens = <<>>
  /\ error = NoError
  /\ ast \in DeclarationTrees
  /\ findings = <<>>
  /\ HookDefaults
  /\ call = NoCall

SpecDecl == InitDecl /\ [][RunSemantic]_vars

-----------------------------------------------------------------------------
(* inferJavaType and isTypeCompatible applied to their arguments: the call *)
(* under way is kept in call, with its result once it has returned          *)

MaxExpr == 4

InferAlphabet == {"-", "1", ".", "f", "D", "l", SQ, DQ, BS, " ", NL, "a"}

Application(fn, args) ==
  [fn |-> fn, args |-> args, returned |-> FALSE, result |-> <<>>]

InitPure ==
  /\ source = <<>>
  /\ pc = "call"
  /\ processedPositions = {}
  /\ tokens = <<>>
  /\ error = NoError
  /\ ast = NoAst
  /\ findings = <<>>
  /\ HookDefaults
  /\ call \in {Application("inferJavaType", <<e>>) :
                 e \in SeqsUpTo(InferAlphabet, MaxExpr) \cup LiteralInputs}
              \cup {Application("isTypeCompatible", <<d, v>>) :
                      d \in JAVA_TYPES, v \in JAVA_TYPES}

\* const valueType = inferJavaType(expression)
ApplyInfer ==
  /\ call.fn = "inferJavaType"
  /\ ~call.returned
  /\ call' = [call EXCEPT !.returned = TRUE,
                          !.result = <<inferJavaType(call.args[1])>>]
  /\ UNCHANGED <<source, pc, processedPositions, tokens, error, ast,
                 findings, hookVars>>

\* isTypeCompatible(declaredType, valueType)
ApplyCompatible ==
  /\ call.fn = "isTypeCompatible"
  /\ ~call.returned
  /\ call' = [call EXCEPT
                !.returned = TRUE,
                !.result = <<isTypeCompatible(call.args[1], call.args[2])>>]
  /\ UNCHANGED <<source, pc, processedPositions, tokens, error, ast,
                 findings, hookVars>>

SpecPure == InitPure /\ [][ApplyInfer \/ ApplyCompatible]_vars

-----------------------------------------------------------------------------
(* semanticCheck called again and again in one process, as the loop of the *)
(* test runner does (src/test-runner.ts lines 26-73): call holds the trees *)
(* still to be checked, the tree handed to the call under way and the log  *)
(* of the calls that returned                                               *)

MaxCalls == 3

RepeatTrees ==
  {Node("Program", <<>>, <<kids>>) :
     kids \in SeqsUpTo(
       {DeclarationNode([type |-> IntT, identifier |-> <<"x">>,
                         expression |-> <<"3", "0", "0">>]),
        DeclarationNode([type |-> ByteT, identifier |-> <<"x">>,
                         expression |-> <<"3", "0", "0">>]),
        DeclarationNode([type |-> ByteT, identifier |-> <<"y">>,
                         expression |-> <<"1">>])}, 2) \ {<<>>}}

InitRepeat ==
  /\ source = <<>>
  /\ pc = "idle"
  /\ processedPositions = {}
  /\ tokens = <<>>
  /\ error = NoError
  /\ ast = NoAst
  /\ findings = <<>>
  /\ HookDefaults
  /\ call \in {[fn |-> "semanticCheck", queue |-> q, given |-> NoAst,
                log |-> <<>>] :
                 q \in SeqsUpTo(RepeatTrees, MaxCalls) \ {<<>>}}

\* The next iteration hands its tree to semanticCheck
Invoke ==
  /\ pc = "idle"
  /\ call.queue # <<>>
  /\ ast' = Head(call.queue)
  /\ call' = [call EXCEPT !.queue = Tail(call.queue),
                          !.given = Head(call.queue)]
  /\ pc' = "parsed"
  /\ UNCHANGED <<source, processedPositions, tokens, error, findings,
                 hookVars>>

\* The call has returned: what it was given, what the tree is now and what
\* it returned
Return ==
  /\ pc \in {"checked", "semanticRaised"}
  /\ call' = [call EXCEPT
                !.log = Append(call.log,
                               [tree |-> call.given, after |-> ast,
                                raised |-> pc = "semanticRaised",
                                findings |-> findings])]
  /\ pc' = "idle"
  /\ UNCHANGED <<source, processedPositions, tokens, error, ast, findings,
                 hookVars>>

SpecRepeat == InitRepeat /\ [][Invoke \/ RunSemantic \/ Return]_vars

-----------------------------------------------------------------------------
(* The useCompiler hook, src/src/App.tsx lines 66-174.  Each handler runs   *)
(* to its end on the state of the latest render; handleFileChange is the   *)
(* only one that awaits, so a file read may finish at any later time, and  *)
(* several reads may be under way.  pc stays "hook".                        *)

MaxPending == 2

MaxResults == 4

\* Files the user may pick: a name and a text.  In order: a declaration that
\* passes every phase, one with a type mismatch, a text the parser rejects,
\* a text the lexer rejects and the parser accepts, and an empty file
FileInputs ==
  { [name |-> <<"a">>,
     text |-> <<"i", "n", "t", " ", "x", "=", "1", ";">>],
    [name |-> <<"b">>,
     text |-> <<"b", "y", "t", "e", " ", "y", "=", "3", "0", "0", ";">>],
    [name |-> <<"c">>, text |-> <<"i", "n", "t", " ", "x">>],
    [name |-> <<"d">>,
     text |-> <<"i", "n", "t", " ", "x", "=", "#", ";">>],
    [name |-> <<"e">>, text |-> <<>>] }

InitHook ==
  /\ source = <<>>
  /\ pc = "hook"
  /\ processedPositions = {}
  /\ tokens = <<>>
  /\ error = NoError
  /\ ast = NoAst
  /\ findings = <<>>
  /\ HookDefaults
  /\ call = NoCall

\* One entry of phaseResults; the message is kept as its variable part
PhaseResult(name, status, detail) ==
  [phase |-> name, status |-> status, detail |-> detail]

\* const canLex = hasFile && phase === 'idle'
canLex == Len(source) > 0 /\ phase = "idle"

\* handleFileChange up to  await file.text() : the read of the picked file
\* starts
handleFileChange ==
  /\ pc = "hook"
  /\ Cardinality(pending) < MaxPending
  /\ \E file \in FileInputs \ pending : pending' = pending \cup {file}
  /\ UNCHANGED <<source, pc, processedPositions, tokens, error, ast,
                 findings, fileName, phase, phaseResults, call>>

\* Variant of FileTextResolved that leaves phase as it is
FileTextResolvedKeepingPhase ==
  /\ pc = "hook"
  /\ \E file \in pending :
       /\ pending' = pending \ {file}
       /\ fileName' = file.name
       /\ source' = file.text
  /\ tokens' = <<>>
  /\ ast' = NoAst
  /\ findings' = <<>>
  /\ phaseResults' = <<>>
  /\ UNCHANGED <<pc, processedPositions, error, call, phase>>

\* handleFileChange after the await, lines 89-95
FileTextResolved ==
  /\ pc = "hook"
  /\ \E file \in pending :
       /\ pending' = pending \ {file}
       /\ fileName' = file.name
       /\ source' = file.text
  /\ phase' = "idle"
  /\ tokens' = <<>>
  /\ ast' = NoAst
  /\ findings' = <<>>
  /\ phaseResults' = <<>>
  /\ UNCHANGED <<pc, processedPositions, error, call>>

\* lines 98-118
runLexical ==
  /\ pc = "hook"
  /\ canLex
  /\ LET r == lexSource(source)
     IN  IF r.error = NoError
           THEN /\ tokens' = r.tokens
                /\ ast' = NoAst
                /\ findings' = <<>>
                /\ phase' = "lexed"
                /\ phaseResults' =
                     <<PhaseResult("lexical", "pass", <<Len(r.tokens)>>)>>
           ELSE /\ phaseResults' =
                     <<PhaseResult("lexical", "error", <<r.error.kind>>)>>
                /\ UNCHANGED <<tokens, ast, findings, phase>>
  /\ UNCHANGED <<source, pc, processedPositions, error, fileName, pending,
                 call>>

\* Variant of runSyntax without  if (!canParse) return
runSyntaxUnguarded ==
  /\ pc = "hook"
  /\ Len(phaseResults) < MaxResults
  /\ LET r == buildAst(source)
     IN  IF r.error = NoError
           THEN /\ ast' = r.ast
                /\ findings' = <<>>
                /\ phase' = "parsed"
                /\ phaseResults' =
                     Append(phaseResults, PhaseResult("syntax", "pass", <<>>))
           ELSE /\ phaseResults' =
                     Append(phaseResults,
                            PhaseResult("syntax", "error", <<r.error.kind>>))
                /\ UNCHANGED <<ast, findings, phase>>
  /\ UNCHANGED <<source, pc, processedPositions, tokens, error, fileName,
                 pending, call>>

\* lines 120-139; canParse is phase === 'lexed'
runSyntax ==
  /\ pc = "hook"
  /\ phase = "lexed"
  /\ Len(phaseResults) < MaxResults
  /\ LET r == buildAst(source)
     IN  IF r.error = NoError
           THEN /\ ast' = r.ast
                /\ findings' = <<>>
                /\ phase' = "parsed"
                /\ phaseResults' =
                     Append(phaseResults, PhaseResult("syntax", "pass", <<>>))
           ELSE /\ phaseResults' =
                     Append(phaseResults,
                            PhaseResult("syntax", "error", <<r.error.kind>>))
                /\ UNCHANGED <<ast, findings, phase>>
  /\ UNCHANGED <<source, pc, processedPositions, tokens, error, fileName,
                 pending, call>>

\* lines 141-163; canCheck is phase === 'parsed'
runSemantic ==
  /\ pc = "hook"
  /\ phase = "parsed"
  /\ ast # NoAst
  /\ Len(phaseResults) < MaxResults
  /\ LET r == semanticCheck(ast)
     IN  IF ~r.raised
           THEN /\ findings' = r.findings
                /\ phase' = "checked"
                /\ phaseResults' =
                     Append(phaseResults,
                            PhaseResult("semantic",
                                        IF \E i \in 1..Len(r.findings) :
                                             r.findings[i].level = "error"
                                          THEN "error" ELSE "pass",
                                        <<>>))
           ELSE /\ phaseResults' =
                     Append(phaseResults,
                            PhaseResult("semantic", "error", <<>>))
                /\ UNCHANGED <<findings, phase>>
  /\ UNCHANGED <<source, pc, processedPositions, tokens, error, ast,
                 fileName, pending, call>>

\* lines 165-174
handleClear ==
  /\ pc = "hook"
  /\ fileName' = <<>>
  /\ source' = <<>>
  /\ tokens' = <<>>
  /\ ast' = NoAst
  /\ findings' = <<>>
  /\ phase' = "idle"
  /\ phaseResults' = <<>>
  /\ UNCHANGED <<pc, processedPositions, error, pending, call>>

NextHook ==
  \/ handleFileChange
  \/ FileTextResolved
  \/ runLexical
  \/ runSyntax
  \/ runSemantic
  \/ handleClear

\* A session of the hook: clicks and completions of file reads in any order
SpecHook == InitHook /\ [][NextHook]_vars

\* Both drivers: a run of the test runner on one source, or a session of the
\* hook
SpecDrivers == (Init \/ InitHook) /\ [][Next \/ NextHook]_vars

-----------------------------------------------------------------------------
(* Properties of the lexical phase, under SpecLex *)

LexDone == pc \in {"lexed", "lexError"}

\* The matches the loop does not discard, in order, whatever their
\* classification: the lexical constructs of the source
RECURSIVE KeptMatches(_, _, _)
KeptMatches(s, pos, marks) ==
  LET m == NextMatch(s, pos)
  IN  IF m = NoMatch THEN <<>>
      ELSE (IF m.index \in marks THEN <<>> ELSE <<m>>)
             \o KeptMatches(s, m.index + Len(m.lexeme), marks)

Constructs(s) == KeptMatches(s, 0, PreScanMarks(s))

Range(f) == {f[i] : i \in DOMAIN f}

Least(S) == CHOOSE x \in S : \A y \in S : x <= y

\* The 1-based line and column of offset i, counted directly
ExpectedLine(s, i) == 1 + Cardinality({j \in 1..i : s[j] = NL})

ExpectedColumn(s, i) ==
  LET before == {j \in 1..i : s[j] = NL}
  IN  IF before = {} THEN i + 1
      ELSE i + 1 - (CHOOSE j \in before : \A k \in before : k <= j)

\* C1: every token lexSource returns has 0 <= start < end <= len(source) and
\* source[start:end] == lexeme
C1_PositionFidelity ==
  pc = "lexed" =>
    \A k \in 1..Len(tokens) :
      /\ 0 <= tokens[k].start
      /\ tokens[k].start < tokens[k].end
      /\ tokens[k].end <= Len(source)
      /\ SubSeq(source, tokens[k].start + 1, tokens[k].end) = tokens[k].lexeme

C1_Witness ==
  /\ pc = "lexed"
  /\ Len(tokens) >= 2
  /\ \E k \in 1..Len(tokens) :
       tokens[k].start > 0 /\ Len(tokens[k].lexeme) >= 2

\* The text from offset i on consists of whitespace, // comments running to
\* the end of their line and /* */ comments that are closed
RECURSIVE OnlyBlanksAndComments(_, _)
OnlyBlanksAndComments(s, i) ==
  IF i >= Len(s) THEN TRUE
  ELSE IF s[i + 1] \in WhitespaceChars THEN OnlyBlanksAndComments(s, i + 1)
  ELSE IF StartsWithAt(s, i, <<"/", "/">>)
    THEN \/ \A j \in (i + 1)..Len(s) : s[j] # NL
         \/ OnlyBlanksAndComments(
              s, Least({j \in i..(Len(s) - 1) : s[j + 1] = NL}))
  ELSE IF StartsWithAt(s, i, <<"/", "*">>)
            /\ \E j \in (i + 2)..(Len(s) - 2) : StartsWithAt(s, j, <<"*", "/">>)
    THEN OnlyBlanksAndComments(
           s, Least({j \in (i + 2)..(Len(s) - 2) :
                       StartsWithAt(s, j, <<"*", "/">>)}) + 2)
  ELSE FALSE

\* C2: a source made only of whitespace, line comments and closed block
\* comments lexes successfully to the empty token sequence, whatever the
\* comments contain
C2_CommentsOnlyLexEmpty ==
  (LexDone /\ OnlyBlanksAndComments(source, 0)) =>
    (pc = "lexed" /\ tokens = <<>>)

C2_Witness ==
  /\ pc = "lexed"
  /\ OnlyBlanksAndComments(source, 0)
  /\ \E i \in 1..Len(source) : source[i] \in {DQ, SQ}
  /\ \E i \in 1..Len(source) : source[i] = "1"

\* The comments of the text from offset i on, as <<first offset, offset past
\* the end, offset of the first character of the comment text, offset past
\* the comment text>>; a // or /* inside a string or char literal starts no
\* comment
RECURSIVE CommentSpans(_, _)
CommentSpans(s, i) ==
  IF i >= Len(s) THEN {}
  ELSE IF s[i + 1] \in WhitespaceChars THEN CommentSpans(s, i + 1)
  ELSE IF StartsWithAt(s, i, <<"/", "/">>)
    THEN LET nls == {j \in i..(Len(s) - 1) : s[j + 1] = NL}
             e   == IF nls = {} THEN Len(s) ELSE Least(nls)
         IN  {<<i, e, i + 2, e>>} \cup CommentSpans(s, e)
  ELSE IF StartsWithAt(s, i, <<"/", "*">>)
            /\ \E j \in (i + 2)..(Len(s) - 2) : StartsWithAt(s, j, <<"*", "/">>)
    THEN LET c == Least({j \in (i + 2)..(Len(s) - 2) :
                           StartsWithAt(s, j, <<"*", "/">>)})
         IN  {<<i, c + 2, i + 2, c>>} \cup CommentSpans(s, c + 2)
  ELSE IF QuotedLiteralEnd(s, i, DQ) # -1
    THEN CommentSpans(s, QuotedLiteralEnd(s, i, DQ))
  ELSE IF QuotedLiteralEnd(s, i, SQ) # -1
    THEN CommentSpans(s, QuotedLiteralEnd(s, i, SQ))
  ELSE CommentSpans(s, i + 1)

\* The sources that differ from s in one character of comment text and have
\* the same comments at the same places
CommentVariants(s) ==
  LET inside == UNION {sp[3]..(sp[4] - 1) : sp \in CommentSpans(s, 0)}
  IN  {v \in {[s EXCEPT ![i + 1] = c] : i \in inside, c \in LexAlphabet} :
         CommentSpans(v, 0) = CommentSpans(s, 0)}

\* C3: two sources that differ only in the text inside comments lex to the
\* same token sequence, or both fail
C3_CommentTextIrrelevant ==
  LexDone =>
    \A v \in CommentVariants(source) :
      IF pc = "lexed"
        THEN lexSource(v).error = NoError /\ lexSource(v).tokens = tokens
        ELSE lexSource(v).error # NoError

\* The char literals of the source whose content is neither one character
\* nor a two-character backslash escape
MalformedCharLiterals(s) ==
  {m \in Range(Constructs(s)) :
     /\ Len(m.lexeme) >= 2
     /\ m.lexeme[1] = SQ
     /\ m.lexeme[Len(m.lexeme)] = SQ
     /\ Len(m.lexeme) - 2 # 1
     /\ ~(Len(m.lexeme) - 2 = 2 /\ m.lexeme[2] = BS)}

\* The matched lexemes that are no token: single characters of the operator
\* class other than = ; ,
UnsupportedOperators(s) ==
  {m \in Range(Constructs(s)) :
     /\ Len(m.lexeme) = 1
     /\ m.lexeme[1] \in OperatorClassChars \ {"=", ";", ","}}

CharLiteralErrorAt(s, i) ==
  /\ pc = "lexError"
  /\ error.kind = "InvalidCharLiteral"
  /\ error.line = ExpectedLine(s, i)
  /\ error.column = ExpectedColumn(s, i)

\* C4 as stated: every malformed char literal makes lexSource fail with the
\* char-literal error positioned at its opening quote
C4_AsStated ==
  LexDone =>
    \A m \in MalformedCharLiterals(source) :
      CharLiteralErrorAt(source, m.index)

\* C4, amended: a malformed char literal always makes lexSource fail; the
\* error is the char-literal error at the opening quote of the first
\* malformed literal unless an unsupported operator lexeme is matched before
\* it, and then it is the invalid-character error for the first such lexeme
C4_MalformedCharLiteralFails ==
  (LexDone /\ MalformedCharLiterals(source) # {}) =>
    LET first == Least({m.index : m \in MalformedCharLiterals(source)})
        ops   == {m.index : m \in UnsupportedOperators(source)}
    IN  /\ pc = "lexError"
        /\ IF \E o \in ops : o < first
             THEN /\ error.kind = "InvalidCharacter"
                  /\ error.index = Least(ops)
             ELSE /\ CharLiteralErrorAt(source, first)
                  /\ error.index = first

C4_Witness ==
  /\ pc = "lexError"
  /\ error.kind = "InvalidCharLiteral"
  /\ error.line = 2
  /\ error.column = 1
  /\ Len(error.lexeme) = 4

\* The offsets of the invalid constructs of the source: lexemes that are no
\* token, malformed char literals, and non-whitespace characters that belong
\* to no comment and to no lexeme
Uncovered(s) ==
  {i \in 0..(Len(s) - 1) :
     /\ s[i + 1] \notin WhitespaceChars
     /\ i \notin PreScanMarks(s)
     /\ \A m \in Range(Constructs(s)) :
          ~(m.index <= i /\ i < m.index + Len(m.lexeme))}

InvalidConstructs(s) ==
  {m.index : m \in MalformedCharLiterals(s)}
    \cup {m.index : m \in UnsupportedOperators(s)}
    \cup Uncovered(s)

\* C5: a failure of lexSource reports the invalid construct with the
\* smallest offset
C5_FirstInvalidConstruct ==
  pc = "lexError" =>
    /\ InvalidConstructs(source) # {}
    /\ error.index = Least(InvalidConstructs(source))

\* C6 as stated: on success every non-whitespace offset lies in a comment or
\* in a token; and an offset covered by neither makes lexSource fail with an
\* invalid-character error
C6_AsStated ==
  LexDone =>
    /\ pc = "lexed" =>
         \A i \in 0..(Len(source) - 1) :
           source[i + 1] \notin WhitespaceChars =>
             \/ i \in PreScanMarks(source)
             \/ \E k \in 1..Len(tokens) :
                  tokens[k].start <= i /\ i < tokens[k].end
    /\ Uncovered(source) # {} =>
         (pc = "lexError" /\ error.kind = "InvalidCharacter")

\* C6, amended: on success every non-whitespace offset lies in a comment or
\* in a token; an offset covered by neither makes lexSource fail, with an
\* invalid-character error or, when a malformed char literal is matched
\* first, with the char-literal error of that literal
C6_Coverage ==
  LexDone =>
    /\ pc = "lexed" =>
         \A i \in 0..(Len(source) - 1) :
           source[i + 1] \notin WhitespaceChars =>
             \/ i \in PreScanMarks(source)
             \/ \E k \in 1..Len(tokens) :
                  tokens[k].start <= i /\ i < tokens[k].end
    /\ Uncovered(source) # {} =>
         /\ pc = "lexError"
         /\ \/ error.kind = "InvalidCharacter"
            \/ /\ error.kind = "InvalidCharLiteral"
               /\ \E m \in MalformedCharLiterals(source) :
                    m.index = error.index

C6_Witness ==
  /\ pc = "lexError"
  /\ error.kind = "InvalidCharacter"
  /\ Uncovered(source) # {}
  /\ error.index \in Uncovered(source)
  /\ Len(tokens) >= 1

-----------------------------------------------------------------------------
(* Properties of the syntax phase *)

\* The number of pieces between semicolons that hold a non-whitespace
\* character, counted along the text; blank tells whether the piece under
\* way is still blank
RECURSIVE CountFragments(_, _, _)
CountFragments(s, i, blank) ==
  IF i > Len(s) THEN 0
  ELSE IF s[i] = ";" THEN CountFragments(s, i + 1, TRUE)
  ELSE IF s[i] \in WhitespaceChars THEN CountFragments(s, i + 1, blank)
  ELSE (IF blank THEN 1 ELSE 0) + CountFragments(s, i + 1, FALSE)

RECURSIVE WithoutWhitespace(_)
WithoutWhitespace(s) ==
  IF s = <<>> THEN <<>>
  ELSE (IF Head(s) \in WhitespaceChars THEN <<>> ELSE <<Head(s)>>)
         \o WithoutWhitespace(Tail(s))

IsPrefix(p, s) == Len(p) <= Len(s) /\ SubSeq(s, 1, Len(p)) = p

IsSuffix(p, s) ==
  Len(p) <= Len(s) /\ SubSeq(s, Len(s) - Len(p) + 1, Len(s)) = p

\* node is a VariableDeclaration whose three children are Type, Identifier
\* and Expression, in this order, labelled with the words and the expression
\* text of the fragment
DeclaresFragment(node, fragment) ==
  /\ node.type = "VariableDeclaration"
  /\ Len(node.children) = 1
  /\ Len(node.children[1]) = 3
  /\ LET ty == node.children[1][1]
         id == node.children[1][2]
         ex == node.children[1][3]
     IN  /\ ty.type = "Type" /\ Len(ty.label) = 1
         /\ id.type = "Identifier" /\ Len(id.label) = 1
         /\ ex.type = "Expression" /\ Len(ex.label) = 1
         /\ \A k \in 1..Len(ty.label[1]) : ty.label[1][k] \in WordChars
         /\ \A k \in 1..Len(id.label[1]) : id.label[1][k] \in WordChars
         /\ ty.label[1] # <<>> /\ id.label[1] # <<>> /\ ex.label[1] # <<>>
         /\ IsPrefix(ty.label[1], fragment)
         /\ fragment[Len(ty.label[1]) + 1] \in WhitespaceChars
         /\ IsSuffix(ex.label[1], fragment)
         /\ WithoutWhitespace(fragment)
              = WithoutWhitespace(ty.label[1] \o id.label[1] \o <<"=">>
                                    \o ex.label[1])

\* C7: on success buildAst returns a Program node whose children are one
\* VariableDeclaration (Type, Identifier, Expression) per non-empty fragment,
\* in source order, or a single Empty node when there is no fragment
C7_ProgramShape ==
  pc = "parsed" =>
    /\ ast.type = "Program"
    /\ Len(ast.children) = 1
    /\ LET kids == ast.children[1]
           n    == CountFragments(CleanSource(source), 1, TRUE)
       IN  IF n = 0
             THEN Len(kids) = 1 /\ kids[1].type = "Empty"
             ELSE /\ Len(kids) = n
                  /\ \A k \in 1..n :
                       DeclaresFragment(kids[k], Statements(source)[k])

C7_Witness ==
  /\ pc = "parsed"
  /\ Len(ast.children[1]) = 2
  /\ ast.children[1][1].children[1][2].label
       # ast.children[1][2].children[1][2].label
  /\ \E k \in 1..2 :
       \E j \in 1..Len(ast.children[1][k].children[1][3].label[1]) :
         ast.children[1][k].children[1][3].label[1][j] = " "

\* What is wrong with one fragment, the shape being judged first, then the
\* type word, then the first character of the identifier
FragmentFault(fragment) ==
  IF ~MatchStatement(fragment).matched THEN "InvalidStatement"
  ELSE IF MatchStatement(fragment).type \notin JAVA_TYPES THEN "InvalidType"
  ELSE IF MatchStatement(fragment).identifier[1] \in Digits
    THEN "StartsWithNumber"
  ELSE "none"

SyntaxDone == pc \in {"parsed", "syntaxError"}

\* C8: buildAst fails exactly when some fragment is malformed, with the
\* error of the earliest malformed fragment and no tree; in one fragment the
\* shape is checked before the type and the type before the identifier
C8_EarliestMalformedFragment ==
  SyntaxDone =>
    LET frs == Statements(source)
        bad == {k \in 1..Len(frs) : FragmentFault(frs[k]) # "none"}
    IN  /\ (pc = "syntaxError") <=> (bad # {})
        /\ pc = "syntaxError" =>
             /\ error.kind = FragmentFault(frs[Least(bad)])
             /\ ast = NoAst

C8_Witness ==
  /\ pc = "syntaxError"
  /\ error.kind = "InvalidType"
  /\ Len(Statements(source)) = 2
  /\ FragmentFault(Statements(source)[1]) = "none"
  /\ MatchStatement(Statements(source)[2]).identifier[1] \in Digits

\* Well-formed declarations and the sources that lack a semicolon after one:
\* two declarations separated by whitespace only, and a declaration at the
\* end of the source
WellFormedDeclarations ==
  { <<"i", "n", "t", " ", "x", "=", "1">>,
    <<"b", "y", "t", "e", " ", "y", " ", "=", " ", "3", "0", "0">> }

MissingSemicolon(s) ==
  \/ \E d1 \in WellFormedDeclarations, d2 \in WellFormedDeclarations :
       \E sep \in {<<" ">>, <<NL>>} : s = d1 \o sep \o d2 \o <<";">>
  \/ s \in WellFormedDeclarations
  \/ \E d1 \in WellFormedDeclarations, d2 \in WellFormedDeclarations :
       s = d1 \o <<";">> \o d2

\* C9: a source with a missing semicolon passes the lexical phase and fails
\* the syntax phase with the invalid-statement error
C9_MissingSemicolonRejected ==
  MissingSemicolon(source) =>
    /\ pc \notin {"lexError", "parsed", "checked", "semanticRaised"}
    /\ pc = "syntaxError" => error.kind = "InvalidStatement"

-----------------------------------------------------------------------------
(* Properties of the semantic phase *)

\* The label of the first child of node tagged tag is a non-empty string
Resolves(node, tag) ==
  /\ node.children # <<>>
  /\ \E k \in 1..Len(node.children[1]) :
       /\ node.children[1][k].type = tag
       /\ \A j \in 1..(k - 1) : node.children[1][j].type # tag
       /\ node.children[1][k].label # <<>>
       /\ node.children[1][k].label[1] # <<>>

\* The children of the tree that yield a finding: declarations whose type
\* and identifier resolve
ReportingDeclarations(tree) ==
  IF tree.children = <<>> THEN {}
  ELSE {k \in 1..Len(tree.children[1]) :
          /\ tree.children[1][k].type = "VariableDeclaration"
          /\ Resolves(tree.children[1][k], "Type")
          /\ Resolves(tree.children[1][k], "Identifier")}

\* C10: semanticCheck returns, without raising, a non-empty sequence; the
\* finding "No semantic errors found" is in it exactly when no declaration
\* produced a finding, and is then the only one
C10_NeverRaisesNeverEmpty ==
  pc \in {"checked", "semanticRaised"} =>
    /\ pc = "checked"
    /\ Len(findings) >= 1
    /\ (NoErrorsFinding \in Range(findings))
         <=> (ReportingDeclarations(ast) = {})
    /\ NoErrorsFinding \in Range(findings) => findings = <<NoErrorsFinding>>
    /\ Len(findings) >= Cardinality(ReportingDeclarations(ast))

C10_Witness ==
  /\ pc = "checked"
  /\ findings = <<NoErrorsFinding>>
  /\ ast.children # <<>>
  /\ Len(ast.children[1]) = 2
  /\ ast.children[1][1].type = "VariableDeclaration"
  /\ ast.children[1][1].children # <<>>
  /\ Resolves(ast.children[1][1], "Identifier")
  /\ ast.children[1][2].children = <<>>

-----------------------------------------------------------------------------
(* Properties of the semantic phase on declaration trees, under SpecDecl *)

\* The declarations of the tree, as its children in order
Decls == ast.children[1]

TypeOf(d) == d.children[1][1].label[1]

IdentifierOf(d) == d.children[1][2].label[1]

ExpressionOf(d) == d.children[1][3].label[1]

AllRecognised ==
  \A k \in 1..Len(Decls) :
    Decls[k].type = "VariableDeclaration" /\ TypeOf(Decls[k]) \in JAVA_TYPES

\* The findings of the given kinds, in order
RECURSIVE OfKinds(_, _)
OfKinds(fs, kinds) ==
  IF fs = <<>> THEN <<>>
  ELSE (IF Head(fs).kind \in kinds THEN <<Head(fs)>> ELSE <<>>)
         \o OfKinds(Tail(fs), kinds)

\* C11: with recognised types, the first declaration of an identifier yields
\* the info 'declared as <type>', every later declaration of it yields only
\* the error 'already declared' (no info, no type mismatch), and the scope
\* keeps the type of the first declaration
C11_DuplicateDeclarations ==
  (pc = "checked" /\ AllRecognised) =>
    LET announced == OfKinds(findings, {"Declared", "AlreadyDeclared"})
    IN  /\ Len(announced) = Len(Decls)
        /\ \A k \in 1..Len(Decls) :
             IF \E j \in 1..(k - 1) :
                  IdentifierOf(Decls[j]) = IdentifierOf(Decls[k])
               THEN announced[k] = AlreadyDeclaredFinding(IdentifierOf(Decls[k]))
               ELSE announced[k] = DeclaredFinding(IdentifierOf(Decls[k]),
                                                   TypeOf(Decls[k]))
        /\ \A i \in 1..Len(findings) :
             /\ findings[i].kind \in {"Declared", "AlreadyDeclared",
                                      "TypeMismatch"}
             /\ findings[i].kind = "TypeMismatch" =>
                  (i > 1 /\ findings[i - 1].kind = "Declared")
        /\ semanticCheck(ast).scope =
             {<<IdentifierOf(Decls[k]), TypeOf(Decls[k])>> :
                k \in {k \in 1..Len(Decls) :
                         \A j \in 1..(k - 1) :
                           IdentifierOf(Decls[j]) # IdentifierOf(Decls[k])}}

\* A byte declaration of x, then an int declaration of x whose value would
\* not fit the first type
C11_Witness ==
  /\ pc = "checked"
  /\ AllRecognised
  /\ Len(Decls) = 3
  /\ TypeOf(Decls[1]) = IntT
  /\ TypeOf(Decls[2]) = ByteT
  /\ IdentifierOf(Decls[1]) = IdentifierOf(Decls[2])
  /\ ExpressionOf(Decls[2]) = <<"3", "0", "0">>
  /\ findings[2].kind = "AlreadyDeclared"

\* C12: the first declaration of an identifier, with recognised type T and
\* expression E, yields the 'Type mismatch' error exactly when a type is
\* inferred for E and T is not compatible with it; when no type is inferred
\* nothing follows the info finding
C12_MismatchIffIncompatible ==
  (/\ pc = "checked"
   /\ Decls[1].type = "VariableDeclaration"
   /\ TypeOf(Decls[1]) \in JAVA_TYPES) =>
    LET T == TypeOf(Decls[1])
        V == inferJavaType(ExpressionOf(Decls[1]))
        incompatible == V # NoType /\ ~isTypeCompatible(T, V)
    IN  /\ findings[1] = DeclaredFinding(IdentifierOf(Decls[1]), T)
        /\ incompatible =>
             (Len(findings) >= 2 /\ findings[2] = TypeMismatchFinding(V, T))
        /\ ~incompatible =>
             (Len(findings) < 2 \/ findings[2].kind # "TypeMismatch")
        /\ (Len(Decls) = 1 /\ ~incompatible) => Len(findings) = 1

\* int x = 3.14 : the value is a double
C12_Witness ==
  /\ pc = "checked"
  /\ Len(Decls) = 1
  /\ Decls[1].type = "VariableDeclaration"
  /\ TypeOf(Decls[1]) = IntT
  /\ ExpressionOf(Decls[1]) = <<"3", ".", "1", "4">>
  /\ findings = <<DeclaredFinding(<<"x">>, IntT),
                  TypeMismatchFinding(DoubleT, IntT)>>

\* Integer literals read as texts: an optional minus sign and digits
IsDigitString(d) == Len(d) >= 1 /\ \A i \in 1..Len(d) : d[i] \in Digits

IsBareInteger(e) ==
  \/ IsDigitString(e)
  \/ (Len(e) >= 2 /\ e[1] = "-" /\ IsDigitString(Tail(e)))

\* The digits of the literal from its first non-zero digit on
Magnitude(e) ==
  LET d  == IF e[1] = "-" THEN Tail(e) ELSE e
      nz == {i \in 1..Len(d) : d[i] # "0"}
  IN  IF nz = {} THEN <<"0">> ELSE SubSeq(d, Least(nz), Len(d))

DigitRank(c) ==
  CHOOSE n \in 1..10 :
    <<"0", "1", "2", "3", "4", "5", "6", "7", "8", "9">>[n] = c

\* a <= b for numbers written without leading zeros
DigitsAtMost(a, b) ==
  \/ Len(a) < Len(b)
  \/ /\ Len(a) = Len(b)
     /\ \/ a = b
        \/ \E i \in 1..Len(a) :
             /\ SubSeq(a, 1, i - 1) = SubSeq(b, 1, i - 1)
             /\ DigitRank(a[i]) < DigitRank(b[i])

\* The largest value and the magnitude of the smallest value of the type
SignedLimits(T) ==
  IF T = ByteT THEN <<<<"1", "2", "7">>, <<"1", "2", "8">>>>
  ELSE IF T = ShortT
    THEN <<<<"3", "2", "7", "6", "7">>, <<"3", "2", "7", "6", "8">>>>
  ELSE <<<<"2", "1", "4", "7", "4", "8", "3", "6", "4", "7">>,
         <<"2", "1", "4", "7", "4", "8", "3", "6", "4", "8">>>>

InSignedRange(e, T) ==
  DigitsAtMost(Magnitude(e), SignedLimits(T)[IF e[1] = "-" THEN 2 ELSE 1])

\* C13: for a declaration whose expression is a bare integer literal n, a
\* declared byte, short or int yields the type-mismatch error exactly when n
\* is outside the signed range of the type, and a declared long, float or
\* double never yields it
C13_IntegerLiteralRanges ==
  (/\ pc = "checked"
   /\ Decls[1].type = "VariableDeclaration"
   /\ IsBareInteger(ExpressionOf(Decls[1]))) =>
    LET T == TypeOf(Decls[1])
        mismatch == Len(findings) >= 2 /\ findings[2].kind = "TypeMismatch"
    IN  /\ T \in {ByteT, ShortT, IntT} =>
             (mismatch <=> ~InSignedRange(ExpressionOf(Decls[1]), T))
        /\ T \in {LongT, FloatT, DoubleT} => ~mismatch

\* int x = -2147483648 : the smallest int is accepted
C13_Witness ==
  /\ pc = "checked"
  /\ Len(Decls) = 1
  /\ Decls[1].type = "VariableDeclaration"
  /\ TypeOf(Decls[1]) = IntT
  /\ ExpressionOf(Decls[1])
       = <<"-", "2", "1", "4", "7", "4", "8", "3", "6", "4", "8">>
  /\ Len(findings) = 1

\* The positions of the findings that open the contribution of a
\* declaration: every finding but a type mismatch
Openers == {i \in 1..Len(findings) : findings[i].kind # "TypeMismatch"}

\* The position of the k-th opener
Opener(k) ==
  CHOOSE i \in Openers : Cardinality({j \in Openers : j <= i}) = k

\* The finding is about the declaration
Concerns(f, d) ==
  \/ f = DeclaredFinding(IdentifierOf(d), TypeOf(d))
  \/ f = AlreadyDeclaredFinding(IdentifierOf(d))
  \/ f = NotValidTypeFinding(TypeOf(d))
  \/ f = TypeMismatchFinding(inferJavaType(ExpressionOf(d)), TypeOf(d))

AllDeclarations ==
  \A k \in 1..Len(Decls) : Decls[k].type = "VariableDeclaration"

\* C17: the findings follow the order of the declarations: the findings of
\* the k-th declaration come after those of the declarations before it; a
\* declaration yields at most two findings, and two only as the info
\* 'declared as' followed by the type-mismatch error
C17_FindingsFollowDeclarations ==
  (pc = "checked" /\ AllDeclarations) =>
    /\ Cardinality(Openers) = Len(Decls)
    /\ \A k \in 1..Len(Decls) :
         /\ Concerns(findings[Opener(k)], Decls[k])
         /\ LET next == IF k = Len(Decls) THEN Len(findings) + 1
                        ELSE Opener(k + 1)
            IN  /\ next - Opener(k) <= 2
                /\ next - Opener(k) = 2 =>
                     /\ findings[Opener(k)].kind = "Declared"
                     /\ findings[Opener(k) + 1].kind = "TypeMismatch"
                     /\ Concerns(findings[Opener(k) + 1], Decls[k])
    /\ Openers # {} => 1 \in Openers

\* A mismatch between two declarations of different identifiers, and an
\* unrecognised type last
C17_Witness ==
  /\ pc = "checked"
  /\ AllDeclarations
  /\ Len(Decls) = 3
  /\ Len(findings) = 4
  /\ findings[1].kind = "Declared"
  /\ findings[2].kind = "TypeMismatch"
  /\ findings[3].kind = "Declared"
  /\ findings[3].name # findings[1].name
  /\ findings[4].kind = "NotValidType"

-----------------------------------------------------------------------------
(* Properties of isTypeCompatible and inferJavaType, under SpecPure *)

Returned(fn) == call.fn = fn /\ call.returned

\* The ladder byte < short < int < long < float < double
Ladder == <<ByteT, ShortT, IntT, LongT, FloatT, DoubleT>>

OnLadder(t) == \E i \in 1..Len(Ladder) : Ladder[i] = t

Rung(t) == CHOOSE i \in 1..Len(Ladder) : Ladder[i] = t

\* C14: over the nine types, isTypeCompatible is true exactly when the types
\* are equal, or both are on the ladder and the declared one is not below the
\* inferred one, or the inferred one is char and the declared one is int,
\* long, float or double
C14_CompatibilityTable ==
  Returned("isTypeCompatible") =>
    LET d == call.args[1]
        v == call.args[2]
    IN  /\ call.result[1] <=>
             \/ d = v
             \/ (OnLadder(d) /\ OnLadder(v) /\ Rung(d) >= Rung(v))
             \/ (v = CharT /\ d \in {IntT, LongT, FloatT, DoubleT})
        /\ (v = CharT /\ d \in {ByteT, ShortT}) => ~call.result[1]
        /\ (d = CharT /\ v # CharT) => ~call.result[1]
        /\ ((d \in {BooleanT, StringT} \/ v \in {BooleanT, StringT}) /\ d # v)
             => ~call.result[1]

\* char widens to int
C14_Witness ==
  /\ Returned("isTypeCompatible")
  /\ call.args = <<IntT, CharT>>
  /\ call.result = <<TRUE>>

\* The text without the whitespace at its ends
Trimmed(e) ==
  LET nw == {i \in 1..Len(e) : e[i] \notin WhitespaceChars}
  IN  IF nw = {} THEN <<>>
      ELSE SubSeq(e, Least(nw), CHOOSE i \in nw : \A j \in nw : j <= i)

Last(x) == x[Len(x)]

Front(x) == SubSeq(x, 1, Len(x) - 1)

Unsigned(x) == IF Len(x) >= 1 /\ x[1] = "-" THEN Tail(x) ELSE x

\* digits, a point, digits
IsDecimal(u) ==
  \E k \in 2..(Len(u) - 1) :
    /\ u[k] = "."
    /\ IsDigitString(SubSeq(u, 1, k - 1))
    /\ IsDigitString(SubSeq(u, k + 1, Len(u)))

\* The characters between the quotes of a literal: any character but the
\* quote and the backslash, or a backslash and the character it escapes (any
\* but a line terminator)
RECURSIVE WellEscaped(_, _)
WellEscaped(b, q) ==
  IF b = <<>> THEN TRUE
  ELSE IF b[1] = BS
    THEN /\ Len(b) >= 2
         /\ b[2] \notin LineTerminators
         /\ WellEscaped(SubSeq(b, 3, Len(b)), q)
  ELSE b[1] # q /\ WellEscaped(Tail(b), q)

IsQuoted(x, q) ==
  /\ Len(x) >= 2
  /\ x[1] = q
  /\ Last(x) = q
  /\ WellEscaped(SubSeq(x, 2, Len(x) - 1), q)

\* The type the mapping gives to a trimmed text, first match wins
ExpectedType(x) ==
  IF x = <<"t", "r", "u", "e">> \/ x = <<"f", "a", "l", "s", "e">>
    THEN BooleanT
  ELSE IF IsQuoted(x, DQ) THEN StringT
  ELSE IF IsQuoted(x, SQ) /\ (Len(x) = 3 \/ (Len(x) = 4 /\ x[2] = BS))
    THEN CharT
  ELSE IF /\ Len(x) >= 2
          /\ Last(x) \in {"f", "F"}
          /\ (IsDigitString(Unsigned(Front(x)))
                \/ IsDecimal(Unsigned(Front(x))))
    THEN FloatT
  ELSE IF \/ IsDecimal(Unsigned(x))
          \/ (/\ Len(x) >= 2
              /\ Last(x) \in {"d", "D"}
              /\ IsDecimal(Unsigned(Front(x))))
    THEN DoubleT
  ELSE IF /\ Len(x) >= 2
          /\ Last(x) \in {"l", "L"}
          /\ IsDigitString(Unsigned(Front(x)))
    THEN LongT
  ELSE IF IsBareInteger(x)
    THEN (IF InSignedRange(x, ByteT) THEN ByteT
          ELSE IF InSignedRange(x, ShortT) THEN ShortT
          ELSE IF InSignedRange(x, IntT) THEN IntT
          ELSE LongT)
  ELSE NoType

\* C15: inferJavaType maps the trimmed expression, first match wins: true
\* and false to boolean, a double-quoted literal to String, a single-quoted
\* one-character or backslash-escape literal to char, digits with optional
\* fraction and f/F to float, digits with a fraction and optional d/D to
\* double, digits with l/L to long, a bare integer to the narrowest of byte,
\* short, int, long whose signed range holds it, anything else to none
C15_InferenceMapping ==
  Returned("inferJavaType") =>
    call.result[1] = ExpectedType(Trimmed(call.args[1]))

\* A float literal with whitespace around it
C15_Witness ==
  /\ Returned("inferJavaType")
  /\ call.args[1] = <<" ", "1", "f", NL>>
  /\ call.result = <<FloatT>>

-----------------------------------------------------------------------------
(* Properties of repeated calls of semanticCheck, under SpecRepeat *)

-----------------------------------------------------------------------------
(* Properties of the drivers, under SpecDrivers *)

LexPassed == lexSource(source).error = NoError

ParsePassed == buildAst(source).error = NoError

\* The syntax phase can run next: canParse in the hook, lexResult === 'PASS'
\* after the lexical phase in the test runner
SyntaxCanRun == (pc = "hook" /\ phase = "lexed") \/ pc = "lexed"

\* The semantic phase can run next: canCheck and a tree in the hook,
\* syntaxResult === 'PASS' after the syntax phase in the test runner
SemanticCanRun ==
  (pc = "hook" /\ phase = "parsed" /\ ast # NoAst) \/ pc = "parsed"

\* C18: in both drivers the syntax phase can run on a source only after the
\* lexical phase passed on that source, and the semantic phase only on the
\* tree the syntax phase returned for that source; after a phase failed no
\* later phase can run until another file is loaded or the state is cleared
C18_PhaseOrder ==
  /\ SyntaxCanRun => (LexPassed /\ tokens = lexSource(source).tokens)
  /\ SemanticCanRun =>
       (LexPassed /\ ParsePassed /\ ast = buildAst(source).ast)
  /\ (pc = "checked" \/ (pc = "hook" /\ phase = "checked")) =>
       (LexPassed /\ ParsePassed /\ ast = buildAst(source).ast
          /\ findings = semanticCheck(ast).findings)
  /\ ~LexPassed => (~SyntaxCanRun /\ ~SemanticCanRun)
  /\ ~ParsePassed => ~SemanticCanRun
  /\ pc \in {"lexError", "syntaxError"} => ~ENABLED (Next \/ NextHook)

\* The syntax phase of the hook failed twice on a source the lexer accepts:
\* the semantic phase cannot run
C18_Witness ==
  /\ pc = "hook"
  /\ phase = "lexed"
  /\ Len(phaseResults) = 3
  /\ phaseResults[2].status = "error"
  /\ phaseResults[3].status = "error"
  /\ ~SemanticCanRun

-----------------------------------------------------------------------------
(* Properties of the positions of lexical errors, under SpecLex *)

\* C19: a lexical error raised at offset i reports as line the number of
\* newline characters in source[0:i] plus 1 and as column i minus the offset
\* of the last newline before i (i + 1 when there is none); both are at
\* least 1, also for i = 0 and for an offset directly after a newline
C19_ErrorPosition ==
  pc = "lexError" =>
    LET i        == error.index
        newlines == {j \in 0..(i - 1) : source[j + 1] = NL}
    IN  /\ 0 <= i /\ i < Len(source)
        /\ error.line = Cardinality(newlines) + 1
        /\ error.column = (IF newlines = {} THEN i + 1
                           ELSE i - (CHOOSE j \in newlines :
                                      \A k \in newlines : k <= j))
        /\ error.line >= 1
        /\ error.column >= 1
        /\ (i = 0 => error.line = 1 /\ error.column = 1)
        /\ ((i > 0 /\ source[i] = NL) => error.column = 1)

\* An invalid character directly after the second newline of the source
C19_Witness ==
  /\ pc = "lexError"
  /\ error.kind = "InvalidCharacter"
  /\ error.index >= 2
  /\ source[error.index] = NL
  /\ error.line = 3
  /\ error.column = 1

-----------------------------------------------------------------------------
(* Properties of unterminated block comments, under SpecLex *)

\* The offsets of a /* that no */ follows
UnterminatedOpeners(s) ==
  {u \in 0..(Len(s) - 2) :
     /\ StartsWithAt(s, u, <<"/", "*">>)
     /\ \A j \in (u + 2)..(Len(s) - 2) : ~StartsWithAt(s, j, <<"*", "/">>)}

\* Offset u lies inside a kept literal that opens with one of the quotes
InKeptLiteral(s, u, quotes) ==
  \E m \in Range(Constructs(s)) :
    /\ m.lexeme[1] \in quotes
    /\ m.index < u
    /\ u < m.index + Len(m.lexeme)

\* The unterminated /* that lie in nothing the pre-scan marks as a comment
\* and in no kept literal that opens with one of the quotes
FreeOpeners(s, quotes) ==
  {u \in UnterminatedOpeners(s) :
     u \notin PreScanMarks(s) /\ ~InKeptLiteral(s, u, quotes)}

\* The offsets of the kept matches that are no token
FaultyMatches(s) ==
  {m.index : m \in MalformedCharLiterals(s)}
    \cup {m.index : m \in UnsupportedOperators(s)}

\* C20 as stated: the first /* with no later */ that is in no line comment
\* and in no string literal has none of its characters marked, and lexSource
\* fails with the invalid-character error at its /
C20_AsStated ==
  FreeOpeners(source, {DQ}) # {} =>
    LET u == Least(FreeOpeners(source, {DQ}))
    IN  /\ pc = "scanned" =>
             (u \notin processedPositions /\ u + 1 \notin processedPositions)
        /\ LexDone =>
             /\ pc = "lexError"
             /\ error.kind = "InvalidCharacter"
             /\ error.index = u

\* C20, amended: a /* with no later */ that the pre-scan does not mark as
\* part of a comment and that is in no kept string or char literal has none
\* of its characters marked and makes lexSource fail.  The error is the one
\* of the first kept match that is no token, which is the invalid-character
\* error at the / when the / is matched and nothing faulty is matched before
\* it; when no kept match is faulty (the / is inside a discarded match) it
\* is the invalid-character error at the first uncovered offset.  An
\* unterminated /* that the pre-scan has marked raises no error.
C20_UnterminatedBlockComment ==
  /\ \A u \in FreeOpeners(source, {DQ, SQ}) :
       /\ pc = "scanned" =>
            (u \notin processedPositions /\ u + 1 \notin processedPositions)
       /\ LexDone =>
            /\ pc = "lexError"
            /\ u \in FaultyMatches(source) \cup Uncovered(source)
            /\ error.index =
                 (IF FaultyMatches(source) # {}
                    THEN Least(FaultyMatches(source))
                    ELSE Least(Uncovered(source)))
            /\ error.index \notin {m.index : m \in MalformedCharLiterals(source)}
                 => error.kind = "InvalidCharacter"
            /\ (u \in FaultyMatches(source)
                  /\ \A f \in FaultyMatches(source) : u <= f) =>
                 (error.index = u /\ error.lexeme = <<"/">>)
  /\ \A u \in UnterminatedOpeners(source) \cap PreScanMarks(source) :
       /\ pc = "scanned" => u \in processedPositions
       /\ pc = "lexError" => error.index # u

\* lexSource failed at an unterminated /* that follows a closed comment
C20_Witness ==
  /\ pc = "lexError"
  /\ error.kind = "InvalidCharacter"
  /\ error.index > 0
  /\ error.index \in FreeOpeners(source, {DQ, SQ})
  /\ error.lexeme = <<"/">>
  /\ \E sp \in CommentSpans(source, 0) : sp[2] <= error.index

-----------------------------------------------------------------------------
(* Properties of the token kinds, under SpecLex *)

TokenKinds ==
  {"identifier", "keyword", "string", "char", "number", "boolean",
   "operator", "punctuation"}

\* Digits, or digits a point digits, after an optional sign; the first may
\* carry one of l L f F d D and the second one of f F d D
IsNumericLexeme(x) ==
  \/ IsDigitString(Unsigned(x))
  \/ IsDecimal(Unsigned(x))
  \/ /\ Len(x) >= 2
     /\ \/ (Last(x) \in {"l", "L", "f", "F", "d", "D"}
              /\ IsDigitString(Unsigned(Front(x))))
        \/ (Last(x) \in {"f", "F", "d", "D"}
              /\ IsDecimal(Unsigned(Front(x))))

\* A letter or underscore followed by letters, digits and underscores
IsIdentifierPattern(x) ==
  /\ Len(x) >= 1
  /\ x[1] \in IdentStartChars
  /\ \A i \in 1..Len(x) : x[i] \in WordChars

\* The kind the lexeme determines
KindOfLexeme(x) ==
  IF x \in {<<"t", "r", "u", "e">>, <<"f", "a", "l", "s", "e">>} THEN "boolean"
  ELSE IF x \in {IntT, DoubleT, FloatT, BooleanT, CharT, ByteT, ShortT,
                 LongT, StringT} THEN "keyword"
  ELSE IF x = <<"=">> THEN "operator"
  ELSE IF x \in {<<";">>, <<",">>} THEN "punctuation"
  ELSE IF IsNumericLexeme(x) THEN "number"
  ELSE IF IsIdentifierPattern(x) THEN "identifier"
  ELSE IF x[1] = DQ THEN "string"
  ELSE IF x[1] = SQ THEN "char"
  ELSE "none"

-----------------------------------------------------------------------------
(* Properties of the identifier checks of buildAst, under SpecParse *)

\* The fragment is a recognised type, whitespace, a text without whitespace
\* that does not start with a digit and is no identifier, and = followed by
\* an expression
HasInvalidIdentifier(fragment) ==
  \E T \in JAVA_TYPES :
    /\ IsPrefix(T \o <<" ">>, fragment)
    /\ \E eq \in (Len(T) + 2)..(Len(fragment) - 1) :
         /\ fragment[eq] = "="
         /\ \A k \in 1..(eq - 1) : fragment[k] # "="
         /\ LET id == Trimmed(SubSeq(fragment, Len(T) + 1, eq - 1))
            IN  /\ id # <<>>
                /\ \A k \in 1..Len(id) : id[k] \notin WhitespaceChars
                /\ id[1] \notin Digits
                /\ ~IsIdentifierPattern(id)

\* C22: a fragment with a recognised type whose identifier does not start
\* with a digit and does not match [A-Za-z_][A-Za-z0-9_]* makes buildAst
\* fail with the contains-invalid-characters error
C22_InvalidCharactersMessage ==
  (SyntaxDone /\ Statements(source) # <<>>
     /\ HasInvalidIdentifier(Statements(source)[1])) =>
    /\ pc = "syntaxError"
    /\ error.kind = "InvalidCharacters"

-----------------------------------------------------------------------------
(* Properties of the resolution of children, under SpecCheck *)

Orders(n) ==
  {f \in [1..n -> 1..n] : \A i, k \in 1..n : i # k => f[i] # f[k]}

\* The node with its children in every order
Reordered(node) ==
  IF node.children = <<>> THEN {node}
  ELSE {[node EXCEPT !.children =
           << [i \in 1..Len(node.children[1]) |-> node.children[1][f[i]]] >>] :
          f \in Orders(Len(node.children[1]))}

\* The tree with the children of each of its nodes in every order
Rearrangements(tree) ==
  IF tree.children = <<>> THEN {tree}
  ELSE LET kids == tree.children[1]
       IN  {[tree EXCEPT !.children = <<c>>] :
              c \in {d \in [1..Len(kids) -> UNION {Reordered(kids[k]) :
                                                    k \in 1..Len(kids)}] :
                       \A k \in 1..Len(kids) : d[k] \in Reordered(kids[k])}}

\* The tree without the nodes that are no declaration and without the
\* declarations whose type or identifier does not resolve
Pruned(tree) ==
  IF tree.children = <<>> THEN tree
  ELSE LET kids == tree.children[1]
           keep == ReportingDeclarations(tree)
           F[k \in 0..Len(kids)] ==
             IF k = 0 THEN <<>>
             ELSE IF k \in keep THEN Append(F[k - 1], kids[k]) ELSE F[k - 1]
       IN  [tree EXCEPT !.children = <<F[Len(kids)]>>]

\* C23: the findings and the scope of semanticCheck do not depend on the
\* order of a declaration's children; a declaration whose Type or Identifier
\* does not resolve, and a node with another tag, add no finding and leave
\* the scope as it is
C23_ResolvedByTag ==
  pc = "checked" =>
    /\ \A other \in Rearrangements(ast) :
         /\ semanticCheck(other).findings = findings
         /\ semanticCheck(other).scope = semanticCheck(ast).scope
    /\ semanticCheck(Pruned(ast)).findings = findings
    /\ semanticCheck(Pruned(ast)).scope = semanticCheck(ast).scope
    /\ Cardinality(semanticCheck(ast).scope)
         <= Cardinality(ReportingDeclarations(ast))

\* A byte declaration with its children in the order Expression, Identifier,
\* Type reports the mismatch, next to a declaration without identifier
C23_Witness ==
  /\ pc = "checked"
  /\ ast.children # <<>>
  /\ Len(ast.children[1]) = 2
  /\ ReportingDeclarations(ast) = {2}
  /\ ast.children[1][1].type = "VariableDeclaration"
  /\ Resolves(ast.children[1][1], "Type")
  /\ ast.children[1][2].children[1][1].type = "Expression"
  /\ Len(findings) = 2
  /\ findings[2].kind = "TypeMismatch"

-----------------------------------------------------------------------------
(* Properties of comment markers inside string literals, under Spec *)

HoldsLineMarker(x) == \E i \in 0..(Len(x) - 2) : StartsWithAt(x, i, <<"/", "/">>)

HoldsBlockComment(x) ==
  \E i \in 0..(Len(x) - 4) :
    /\ StartsWithAt(x, i, <<"/", "*">>)
    /\ \E k \in (i + 2)..(Len(x) - 2) : StartsWithAt(x, k, <<"*", "/">>)

\* The text before the first //
BeforeLineMarker(x) ==
  IF HoldsLineMarker(x)
    THEN SubSeq(x, 1, Least({i \in 0..(Len(x) - 2) :
                               StartsWithAt(x, i, <<"/", "/">>)}))
    ELSE x

\* The text without its /* ... */ sequences, each running to the nearest */
RECURSIVE WithoutBlockComments(_)
WithoutBlockComments(x) ==
  IF ~HoldsBlockComment(x) THEN x
  ELSE LET open  == Least({i \in 0..(Len(x) - 4) :
                             /\ StartsWithAt(x, i, <<"/", "*">>)
                             /\ \E k \in (i + 2)..(Len(x) - 2) :
                                  StartsWithAt(x, k, <<"*", "/">>)})
           close == Least({k \in (open + 2)..(Len(x) - 2) :
                             StartsWithAt(x, k, <<"*", "/">>)})
       IN  SubSeq(x, 1, open)
             \o WithoutBlockComments(SubSeq(x, close + 3, Len(x)))

\* The string tokens whose literal holds // or a /* ... */ sequence and is
\* the expression of a declaration: a type name, an identifier and = come
\* before it at the start of a statement, and ; or the end of the source
\* comes after it
MarkedLiterals ==
  {k \in 4..Len(tokens) :
     /\ tokens[k].type = "string"
     /\ (HoldsLineMarker(tokens[k].lexeme)
           \/ HoldsBlockComment(tokens[k].lexeme))
     /\ tokens[k - 1].lexeme = <<"=">>
     /\ tokens[k - 2].type = "identifier"
     /\ tokens[k - 3].type = "keyword"
     /\ (k = 4 \/ tokens[k - 4].lexeme = <<";">>)
     /\ \/ tokens[k].end < Len(source) /\ source[tokens[k].end + 1] = ";"
        \/ \A i \in (tokens[k].end + 1)..Len(source) :
             source[i] \in WhitespaceChars}

ExpressionLabels(tree) ==
  {tree.children[1][k].children[1][3].label[1] :
     k \in {i \in 1..Len(tree.children[1]) :
              tree.children[1][i].type = "VariableDeclaration"}}

\* C24: when the expression of a declaration is a string literal that holds
\* // or /* ... */, lexSource returns the whole literal as one string token,
\* while the Expression label buildAst stores is the literal cut at the //
\* and without the /* ... */ text, not the literal as written; no statement
\* buildAst splits off holds the literal as written
C24_LiteralTruncatedByParser ==
  \A k \in MarkedLiterals :
    /\ tokens[k].lexeme = SubSeq(source, tokens[k].start + 1, tokens[k].end)
    /\ tokens[k].lexeme[1] = DQ
    /\ tokens[k].lexeme[Len(tokens[k].lexeme)] = DQ
    /\ \A n \in 1..Len(Statements(source)) :
         \A i \in 0..Len(Statements(source)[n]) :
           ~StartsWithAt(Statements(source)[n], i, tokens[k].lexeme)
    /\ pc \in {"parsed", "checked"} =>
         /\ tokens[k].lexeme \notin ExpressionLabels(ast)
         /\ Trimmed(WithoutBlockComments(BeforeLineMarker(tokens[k].lexeme)))
              \in ExpressionLabels(ast)

\* The literal "a//b" is one token and the stored expression is "a
C24_Witness ==
  /\ pc = "parsed"
  /\ MarkedLiterals # {}
  /\ <<DQ, "a">> \in ExpressionLabels(ast)
  /\ \E k \in MarkedLiterals : tokens[k].lexeme = <<DQ, "a", "/", "/", "b", DQ>>

-----------------------------------------------------------------------------
(* Properties of the comments of the lexer and of the parser, under Spec *)

\* The text at the offsets from i on that are not in marks, whitespace kept
RECURSIVE TextOutside(_, _, _)
TextOutside(s, i, marks) ==
  IF i >= Len(s) THEN <<>>
  ELSE (IF i \in marks /\ s[i + 1] \notin WhitespaceChars
          THEN <<>> ELSE <<s[i + 1]>>)
         \o TextOutside(s, i + 1, marks)

\* C25: the characters the pre-scan of the lexer marks as comment are the
\* characters buildAst strips, so that buildAst accepts every source whose
\* text outside the comments of the lexer is a sequence of well-formed
\* declarations
C25_CommentsAgree ==
  /\ pc = "scanned" =>
       WithoutWhitespace(TextOutside(source, 0, processedPositions))
         = WithoutWhitespace(CleanSource(source))
  /\ pc = "syntaxError" =>
       buildAst(TextOutside(source, 0, PreScanMarks(source))).error # NoError

-----------------------------------------------------------------------------
(* Properties of the types of numeric lexemes, under SpecPure *)

\* lexSource returns the text as one token of kind number
LexesAsNumber(x) ==
  /\ lexSource(x).error = NoError
  /\ Len(lexSource(x).tokens) = 1
  /\ lexSource(x).tokens[1].type = "number"
  /\ lexSource(x).tokens[1].lexeme = x

\* C26: inferJavaType gives every lexeme the lexer tags number one of the
\* types byte, short, int, long, float, double, never none
C26_NumbersAlwaysTyped ==
  (call.fn = "inferJavaType" /\ call.returned
     /\ LexesAsNumber(call.args[1])) =>
    call.result[1] \in {ByteT, ShortT, IntT, LongT, FloatT, DoubleT}

-----------------------------------------------------------------------------
(* Properties of semanticCheck on the trees of buildAst, under Spec *)

\* The declarations of the tree buildAst returned
BuiltDeclarations ==
  {k \in 1..Len(ast.children[1]) :
     ast.children[1][k].type = "VariableDeclaration"}

\* C27: in a tree buildAst returned every Type label is a recognised type
\* and every Identifier label matches [A-Za-z_][A-Za-z0-9_]*; semanticCheck
\* on it emits no 'is not a valid Java type' finding and skips no
\* declaration: each declaration yields 'declared as' or 'already declared'
\* for its identifier, and the 'declared as' findings are as many as the
\* distinct identifiers declared
C27_BuiltTreesAlwaysReport ==
  pc \in {"parsed", "checked"} =>
    LET fs  == IF pc = "checked" THEN findings
               ELSE semanticCheck(ast).findings
        ann == OfKinds(fs, {"Declared", "AlreadyDeclared"})
    IN  /\ \A k \in BuiltDeclarations :
             /\ TypeOf(ast.children[1][k]) \in JAVA_TYPES
             /\ IsIdentifierPattern(IdentifierOf(ast.children[1][k]))
             /\ ExpressionOf(ast.children[1][k]) # <<>>
        /\ \A i \in 1..Len(fs) : fs[i].kind # "NotValidType"
        /\ ReportingDeclarations(ast) = BuiltDeclarations
        /\ BuiltDeclarations # {} =>
             /\ BuiltDeclarations = 1..Len(ast.children[1])
             /\ Len(ann) = Len(ast.children[1])
             /\ \A k \in BuiltDeclarations :
                  ann[k].name = IdentifierOf(ast.children[1][k])
        /\ Len(OfKinds(fs, {"Declared"}))
             = Cardinality({IdentifierOf(ast.children[1][k]) :
                              k \in BuiltDeclarations})

\* Two declarations of x: one 'declared as' finding and one 'already declared'
C27_Witness ==
  /\ pc = "checked"
  /\ Cardinality(BuiltDeclarations) = 2
  /\ IdentifierOf(ast.children[1][1]) = IdentifierOf(ast.children[1][2])
  /\ Len(OfKinds(findings, {"Declared"})) = 1
  /\ Len(OfKinds(findings, {"AlreadyDeclared"})) = 1

-----------------------------------------------------------------------------
(* Properties of the registration of identifiers, under SpecDecl *)

\* An earlier declaration of the identifier of the k-th declaration has a
\* recognised type
RegisteredBefore(k) ==
  \E j \in 1..(k - 1) :
    /\ IdentifierOf(Decls[j]) = IdentifierOf(Decls[k])
    /\ TypeOf(Decls[j]) \in JAVA_TYPES

\* C28: an identifier is registered once its declared type was found valid
\* and before its expression is compared: a declaration with a recognised
\* type is 'already declared' exactly when an earlier declaration of the
\* identifier had a recognised type, whether or not that one reported a
\* type mismatch; a declaration with an unrecognised type registers nothing
C28_RegistrationOrder ==
  (pc = "checked" /\ AllDeclarations) =>
    /\ Cardinality(Openers) = Len(Decls)
    /\ \A k \in 1..Len(Decls) :
         LET d == Decls[k]
             f == findings[Opener(k)]
         IN  IF TypeOf(d) \notin JAVA_TYPES
               THEN f = NotValidTypeFinding(TypeOf(d))
             ELSE IF RegisteredBefore(k)
               THEN f = AlreadyDeclaredFinding(IdentifierOf(d))
             ELSE /\ f = DeclaredFinding(IdentifierOf(d), TypeOf(d))
                  /\ (inferJavaType(ExpressionOf(d)) # NoType
                        /\ ~isTypeCompatible(TypeOf(d),
                                             inferJavaType(ExpressionOf(d)))) =>
                       /\ Opener(k) < Len(findings)
                       /\ findings[Opener(k) + 1].kind = "TypeMismatch"
    /\ {e[1] : e \in semanticCheck(ast).scope}
         = {IdentifierOf(Decls[k]) :
              k \in {i \in 1..Len(Decls) : TypeOf(Decls[i]) \in JAVA_TYPES}}

\* foo x is rejected, byte x = 300 declares x with a mismatch, int x is
\* already declared
C28_Witness ==
  /\ pc = "checked"
  /\ AllDeclarations
  /\ Len(Decls) = 3
  /\ Len(findings) = 4
  /\ findings[1].kind = "NotValidType"
  /\ findings[2].kind = "Declared"
  /\ findings[3].kind = "TypeMismatch"
  /\ findings[4] = AlreadyDeclaredFinding(findings[2].name)
  /\ IdentifierOf(Decls[1]) = findings[2].name

-----------------------------------------------------------------------------
(* Properties of the state of the useCompiler hook, under SpecHook *)

\* C29: in every state of the hook the results shown belong to the loaded
\* source: from lexed on tokens = lexSource(source), from parsed on
\* ast = buildAst(source), when checked findings = semanticCheck(ast); when
\* idle there are no tokens, no tree and no findings; fileName and source
\* come from the same file
C29_ResultsBelongToSource ==
  /\ phase \in {"idle", "lexed", "parsed", "checked"}
  /\ phase \in {"lexed", "parsed", "checked"} =>
       /\ lexSource(source).error = NoError
       /\ tokens = lexSource(source).tokens
  /\ phase \in {"parsed", "checked"} =>
       /\ buildAst(source).error = NoError
       /\ ast = buildAst(source).ast
  /\ phase = "checked" => findings = semanticCheck(ast).findings
  /\ phase = "idle" => (tokens = <<>> /\ ast = NoAst /\ findings = <<>>)
  /\ \/ fileName = <<>> /\ source = <<>>
     \/ \E file \in FileInputs : fileName = file.name /\ source = file.text

\* The second file picked was read first and checked, its type mismatch is
\* shown, and the read of another file is still under way
C29_Witness ==
  /\ phase = "checked"
  /\ fileName = <<"b">>
  /\ pending # {}
  /\ \E i \in 1..Len(findings) : findings[i].kind = "TypeMismatch"
  /\ Len(phaseResults) = 3

\* C30: phaseResults holds at most one entry per phase, in the order
\* lexical, syntax, semantic, so that it never has more than three entries
C30_OneResultPerPhase ==
  /\ Len(phaseResults) <= 3
  /\ \A i, k \in 1..Len(phaseResults) :
       i < k =>
         <<phaseResults[i].phase, phaseResults[k].phase>>
           \in {<<"lexical", "syntax">>, <<"lexical", "semantic">>,
                <<"syntax", "semantic">>}

=============================================================================
